---- MODULE Spec2Model ----
(***************************************************************************)
(* Model of the transform ("view definition") core of dbml:                *)
(*   TransformExporter  packages/dbml-core/src/export/TransformExporter.js *)
(*   DbtExporter        packages/dbml-core/src/export/DbtExporter.js       *)
(*   TransformInterpreter  (the interpreter of transform declarations)     *)
(*   TransformValidator   dbml-parse/.../elementValidators/transform.ts    *)
(* A JavaScript object is a record whose DOMAIN holds exactly the          *)
(* properties that are set (a property that is undefined is absent), an    *)
(* array is a sequence and a string is a string.                           *)
(***************************************************************************)
EXTENDS Integers, Sequences, FiniteSets, TLC

VARIABLES
  call,               \* the pending call: function name and its arguments
  columnExpressions,  \* buildSelectClause's local array of rendered columns
  parts,              \* exportTransform's local array of statement parts
  ret,                \* what the call returned or threw
  declarationNode,    \* TransformInterpreter: the declaration being interpreted
  thisTransform,      \* TransformInterpreter: this.transform
  errors,             \* TransformInterpreter: the diagnostics collected so far
  pc,                 \* TransformInterpreter: the position of interpret()
  dbtCall,            \* DbtExporter: the pending call and its arguments
  dirs,               \* the directories of the file system
  files,              \* the files of the file system: path -> content
  dbtPc,              \* DbtExporter: the position of the call
  dbtParts,           \* DbtExporter: generateDbtModel's local array parts
  dbtRet,             \* DbtExporter: what the call returned or threw
  programNode,        \* TransformValidator: the declarations of the program
  publicSymbolTable,  \* TransformValidator: the shared name registry
  compileErrors,      \* TransformValidator: the diagnostics collected so far
  validated           \* TransformValidator: the declarations validated so far

exporterVars == <<call, columnExpressions, parts, ret>>
interpreterVars == <<declarationNode, thisTransform, errors, pc>>
dbtVars == <<dbtCall, dirs, files, dbtPc, dbtParts, dbtRet>>
validatorVars == <<programNode, publicSymbolTable, compileErrors, validated>>
vars == <<exporterVars, interpreterVars, dbtVars, validatorVars>>

\* No call is pending.
NoCall == [fn |-> "none"]

\* The interpreter is not in use.
InterpreterIdle ==
  /\ declarationNode = NoCall
  /\ thisTransform = NoCall
  /\ errors = <<>>
  /\ pc = [at |-> "idle"]

\* The dbt exporter is not in use.
DbtIdle ==
  /\ dbtCall = NoCall
  /\ dirs = {}
  /\ files = <<>>
  /\ dbtPc = [at |-> "idle"]
  /\ dbtParts = <<>>
  /\ dbtRet = NoCall

\* The validator is not in use.
ValidatorIdle ==
  /\ programNode = <<>>
  /\ publicSymbolTable = <<>>
  /\ compileErrors = <<>>
  /\ validated = 0

\* The SQL exporter is not in use.
ExporterIdle ==
  /\ call = NoCall
  /\ columnExpressions = <<>>
  /\ parts = <<>>

(***************************************************************************)
(* JavaScript primitives                                                   *)
(***************************************************************************)
\* JavaScript's null, as returned by the clause builders.
null == "<null>"

\* obj.f !== undefined
Has(obj, f) == f \in DOMAIN obj

\* Boolean(s) for a string-or-null value.
Truthy(s) == s # null /\ s # ""

\* Boolean(obj.f) for a string property.
TruthyField(obj, f) == Has(obj, f) /\ Truthy(obj[f])

\* !obj.f || obj.f.length === 0 for an array property.
EmptyOrMissing(obj, f) == IF Has(obj, f) THEN Len(obj[f]) = 0 ELSE TRUE

\* Array.prototype.join
RECURSIVE Join(_, _)
Join(seq, sep) ==
  IF Len(seq) = 0 THEN ""
  ELSE IF Len(seq) = 1 THEN seq[1]
  ELSE seq[1] \o sep \o Join(Tail(seq), sep)

\* Array.prototype.filter(Boolean)
FilterBoolean(seq) == SelectSeq(seq, Truthy)

\* String.prototype.startsWith / endsWith / includes
StartsWith(s, p) == Len(s) >= Len(p) /\ SubSeq(s, 1, Len(p)) = p
EndsWith(s, p) == Len(s) >= Len(p) /\ SubSeq(s, Len(s) - Len(p) + 1, Len(s)) = p
Includes(s, sub) ==
  \E i \in 1..(Len(s) - Len(sub) + 1) : SubSeq(s, i, i + Len(sub) - 1) = sub

\* Number of (possibly overlapping) occurrences of sub in s.
CountOcc(s, sub) ==
  Cardinality({i \in 1..(Len(s) - Len(sub) + 1) : SubSeq(s, i, i + Len(sub) - 1) = sub})

\* Position of the first occurrence of sub in s, 0 when there is none.
IndexOf(s, sub) ==
  IF Includes(s, sub)
  THEN CHOOSE i \in 1..(Len(s) - Len(sub) + 1) :
         /\ SubSeq(s, i, i + Len(sub) - 1) = sub
         /\ \A j \in 1..(i - 1) : SubSeq(s, j, j + Len(sub) - 1) # sub
  ELSE 0

\* String.prototype.split(sep) for a non-empty separator.
RECURSIVE Split(_, _)
Split(s, sep) ==
  LET i == IndexOf(s, sep) IN
  IF i = 0 THEN <<s>>
  ELSE <<SubSeq(s, 1, i - 1)>> \o Split(SubSeq(s, i + Len(sep), Len(s)), sep)

LowerLetters == "abcdefghijklmnopqrstuvwxyz"
UpperLetters == "ABCDEFGHIJKLMNOPQRSTUVWXYZ"

\* toUpperCase of one character.
UpperChar(c) ==
  LET i == IndexOf(LowerLetters, c) IN
  IF i = 0 THEN c ELSE SubSeq(UpperLetters, i, i)

\* String.prototype.toUpperCase
RECURSIVE toUpperCase(_)
toUpperCase(s) ==
  IF Len(s) = 0 THEN ""
  ELSE UpperChar(SubSeq(s, 1, 1)) \o toUpperCase(SubSeq(s, 2, Len(s)))

\* Array.prototype.map over a sequence
Map(seq, F(_)) == [i \in 1..Len(seq) |-> F(seq[i])]

(***************************************************************************)
(* TransformExporter                                                       *)
(***************************************************************************)
\* The column reference shared by the plain, aggregation and window columns.
columnRef(col) ==
  IF TruthyField(col, "sourceTable")
  THEN "\"" \o col.sourceTable \o "\".\"" \o col.sourceColumn \o "\""
  ELSE "\"" \o col.sourceColumn \o "\""

\* ` AS "alias"` when the alias is set.
aliasSuffix(obj) ==
  IF TruthyField(obj, "alias") THEN " AS \"" \o obj.alias \o "\"" ELSE ""

\* `"table"."column" DIRECTION` of one order term.
orderTerm(o) == "\"" \o o.table \o "\".\"" \o o.column \o "\" " \o o.direction

\* `"token"` of one partition-by token.
partitionToken(p) == "\"" \o p \o "\""

\* Variant: an orderBy alone also makes the aggregation windowed.
buildAggregationColumn_OverOnOrderBy(col, dialect) ==
  LET func == toUpperCase(col.aggregation.function)
      expr == columnRef(col)
      partition ==
        IF ~EmptyOrMissing(col.aggregation, "partitionBy")
        THEN "PARTITION BY " \o Join(Map(col.aggregation.partitionBy, partitionToken), ", ")
        ELSE ""
      order ==
        IF ~EmptyOrMissing(col.aggregation, "orderBy")
        THEN (IF partition # "" THEN " " ELSE "")
             \o "ORDER BY " \o Join(Map(col.aggregation.orderBy, orderTerm), ", ")
        ELSE ""
      aggregateExpr ==
        IF partition \o order # ""
        THEN func \o "(" \o expr \o ") OVER (" \o partition \o order \o ")"
        ELSE func \o "(" \o expr \o ")"
  IN "  " \o aggregateExpr \o aliasSuffix(col)

buildAggregationColumn(col, dialect) ==
  LET func == toUpperCase(col.aggregation.function)
      expr == columnRef(col)
      overClause ==
        "PARTITION BY " \o Join(Map(col.aggregation.partitionBy, partitionToken), ", ")
        \o (IF ~EmptyOrMissing(col.aggregation, "orderBy")
            THEN " ORDER BY " \o Join(Map(col.aggregation.orderBy, orderTerm), ", ")
            ELSE "")
      aggregateExpr ==
        IF ~EmptyOrMissing(col.aggregation, "partitionBy")
        THEN func \o "(" \o expr \o ") OVER (" \o overClause \o ")"
        ELSE func \o "(" \o expr \o ")"
  IN "  " \o aggregateExpr \o aliasSuffix(col)

\* The window functions that take no argument.
NoArgWindowFunctions == {"ROW_NUMBER", "RANK", "DENSE_RANK", "PERCENT_RANK", "CUME_DIST"}

\* Variant: a function outside both lists gets no argument.
windowArgs_DefaultNoArgs(col, func) ==
  IF func \in {"LAG", "LEAD", "NTH_VALUE", "FIRST_VALUE", "LAST_VALUE"}
  THEN columnRef(col)
  ELSE ""

\* The argument list of a window function.
windowArgs(col, func) ==
  IF func \in {"LAG", "LEAD", "NTH_VALUE", "FIRST_VALUE", "LAST_VALUE"}
  THEN columnRef(col)
  ELSE IF func \in NoArgWindowFunctions THEN ""
  ELSE columnRef(col)

buildWindowColumn(col, dialect) ==
  LET func == toUpperCase(col.window.function)
      args == windowArgs(col, func)
      over1 ==
        IF ~EmptyOrMissing(col.window, "partitionBy")
        THEN "PARTITION BY " \o Join(Map(col.window.partitionBy, partitionToken), ", ")
        ELSE ""
      over2 ==
        IF ~EmptyOrMissing(col.window, "orderBy")
        THEN over1 \o (IF over1 # "" THEN " " ELSE "")
             \o "ORDER BY " \o Join(Map(col.window.orderBy, orderTerm), ", ")
        ELSE over1
      overClause ==
        IF TruthyField(col.window, "frame")
        THEN over2 \o (IF over2 # "" THEN " " ELSE "") \o col.window.frame
        ELSE over2
      windowExpr == IF args # "" THEN func \o "(" \o args \o ")" ELSE func \o "()"
      fullExpr ==
        IF overClause # "" THEN windowExpr \o " OVER (" \o overClause \o ")"
        ELSE windowExpr \o " OVER ()"
  IN "  " \o fullExpr \o aliasSuffix(col)

\* Variant: the window payload is looked at before the aggregation.
buildColumn_WindowFirst(col, dialect) ==
  IF Has(col, "window") THEN buildWindowColumn(col, dialect)
  ELSE IF Has(col, "aggregation") THEN buildAggregationColumn(col, dialect)
  ELSE IF TruthyField(col, "expression") /\ ~TruthyField(col, "sourceColumn")
       THEN "  " \o col.expression \o aliasSuffix(col)
  ELSE "  " \o columnRef(col) \o aliasSuffix(col)

\* The callback of transform.columns.map: one column, by variant.
buildColumn(col, dialect) ==
  IF Has(col, "aggregation") THEN buildAggregationColumn(col, dialect)
  ELSE IF Has(col, "window") THEN buildWindowColumn(col, dialect)
  ELSE IF TruthyField(col, "expression") /\ ~TruthyField(col, "sourceColumn")
       THEN "  " \o col.expression \o aliasSuffix(col)
  ELSE "  " \o columnRef(col) \o aliasSuffix(col)

\* Variant: the last column is left out.
buildColumnExpressions_DropLast(transform, dialect) ==
  IF EmptyOrMissing(transform, "columns") THEN <<>>
  ELSE [i \in 1..(Len(transform.columns) - 1) |-> buildColumn(transform.columns[i], dialect)]

\* The local columnExpressions of buildSelectClause (empty on the early return).
buildColumnExpressions(transform, dialect) ==
  IF EmptyOrMissing(transform, "columns") THEN <<>>
  ELSE [i \in 1..Len(transform.columns) |-> buildColumn(transform.columns[i], dialect)]

\* Variant: the derived columns are added to the SELECT list.
buildSelectClause_WithDerived(transform, dialect) ==
  LET derived == IF Has(transform, "derivedColumns")
                 THEN [i \in 1..Len(transform.derivedColumns) |->
                         "  " \o transform.derivedColumns[i].expression \o " AS \""
                         \o transform.derivedColumns[i].name \o "\""]
                 ELSE <<>>
      all == buildColumnExpressions(transform, dialect) \o derived
  IN IF Len(all) = 0 THEN "  *" ELSE Join(all, ",\n")

buildSelectClause(transform, dialect) ==
  IF EmptyOrMissing(transform, "columns") THEN "  *"
  ELSE Join(buildColumnExpressions(transform, dialect), ",\n")

\* `"schema"."name"` or `"name"` of a source.
sourceTableName(source) ==
  IF TruthyField(source, "schemaName")
  THEN "\"" \o source.schemaName \o "\".\"" \o source.name \o "\""
  ELSE "\"" \o source.name \o "\""

\* Variant: the length test is `<= 1`, as in buildJoinClauses.
fromClauseThrows_OffByOne(transform) ==
  EmptyOrMissing(transform, "sources") \/ Len(transform.sources) <= 1

\* buildFromClause throws exactly when this holds.
fromClauseThrows(transform) == EmptyOrMissing(transform, "sources")

buildFromClause(transform, dialect) ==
  IF fromClauseThrows(transform)
  THEN [threw |-> TRUE, error |-> "Transform " \o transform.name \o " has no sources"]
  ELSE [threw |-> FALSE,
        value |-> sourceTableName(transform.sources[1]) \o aliasSuffix(transform.sources[1])]

\* transform.joins || []
joinsOf(transform) == IF Has(transform, "joins") THEN transform.joins ELSE <<>>

\* Variant: only the right table of a join is compared with the source.
joinConditions_RightOnly(transform, source) ==
  SelectSeq(joinsOf(transform), LAMBDA j : j.rightTable = source.name)

\* The filter callback: the joins that name this source.
joinConditions(transform, source) ==
  SelectSeq(joinsOf(transform),
            LAMBDA j : j.rightTable = source.name \/ j.leftTable = source.name)

\* One ON condition.
onClause(j) ==
  "\"" \o j.leftTable \o "\".\"" \o j.leftColumn \o "\" " \o j.operator
  \o " \"" \o j.rightTable \o "\".\"" \o j.rightColumn \o "\""

\* The forEach callback: the join line of one remaining source.
buildJoinLine(transform, source) ==
  IF Len(joinConditions(transform, source)) > 0
  THEN "  INNER JOIN " \o sourceTableName(source) \o aliasSuffix(source) \o " ON "
       \o Join(Map(joinConditions(transform, source), onClause), " AND ")
  ELSE "  CROSS JOIN " \o sourceTableName(source) \o aliasSuffix(source)

buildJoinClauses(transform, dialect) ==
  IF ~Has(transform, "sources") \/ Len(transform.sources) <= 1 THEN <<>>
  ELSE Map(Tail(transform.sources), LAMBDA source : buildJoinLine(transform, source))

\* Variant: the `length === 0` test is missing.
buildWhereClause_NoLengthCheck(transform, dialect) ==
  IF ~Has(transform, "filters") THEN null
  ELSE "WHERE " \o Join(Map(transform.filters, LAMBDA f : f.expression), " AND ")

buildWhereClause(transform, dialect) ==
  IF EmptyOrMissing(transform, "filters") THEN null
  ELSE "WHERE " \o Join(Map(transform.filters, LAMBDA f : f.expression), " AND ")

\* The map callback of buildGroupByClause: one group-by token.
groupByToken(col) ==
  IF Includes(col, ".")
  THEN "\"" \o Split(col, ".")[1] \o "\".\"" \o Split(col, ".")[2] \o "\""
  ELSE "\"" \o col \o "\""

buildGroupByClause(transform, dialect) ==
  IF EmptyOrMissing(transform, "groupBy") THEN null
  ELSE "GROUP BY " \o Join(Map(transform.groupBy, groupByToken), ", ")

buildOrderByClause(transform, dialect) ==
  IF EmptyOrMissing(transform, "orderBy") THEN null
  ELSE "ORDER BY " \o Join(Map(transform.orderBy, orderTerm), ", ")

buildLimitClause(transform, dialect) ==
  IF ~Has(transform, "limit") \/ transform.limit = 0 THEN null
  ELSE "LIMIT " \o ToString(transform.limit)

\* Variant: orderByClause is listed before groupByClause.
exportTransformParts_OrderBeforeGroup(transform, dialect) ==
  FilterBoolean(
    << "-- Transform: " \o transform.name,
       "CREATE OR REPLACE VIEW \"" \o transform.name \o "\" AS",
       "SELECT",
       buildSelectClause(transform, dialect),
       "FROM " \o buildFromClause(transform, dialect).value >>
    \o buildJoinClauses(transform, dialect)
    \o << buildWhereClause(transform, dialect),
          buildOrderByClause(transform, dialect),
          buildGroupByClause(transform, dialect),
          buildLimitClause(transform, dialect) >>)

\* The local parts of exportTransform, after filter(Boolean).
exportTransformParts(transform, dialect) ==
  FilterBoolean(
    << "-- Transform: " \o transform.name,
       "CREATE OR REPLACE VIEW \"" \o transform.name \o "\" AS",
       "SELECT",
       buildSelectClause(transform, dialect),
       "FROM " \o buildFromClause(transform, dialect).value >>
    \o buildJoinClauses(transform, dialect)
    \o << buildWhereClause(transform, dialect),
          buildGroupByClause(transform, dialect),
          buildOrderByClause(transform, dialect),
          buildLimitClause(transform, dialect) >>)

exportTransform(transform, dialect) ==
  IF buildFromClause(transform, dialect).threw
  THEN buildFromClause(transform, dialect)
  ELSE [threw |-> FALSE,
        value |-> Join(exportTransformParts(transform, dialect), "\n") \o ";\n"]

\* The first element of the list whose export throws, 0 when none does.
firstThrowing(transforms, dialect) ==
  IF \E i \in 1..Len(transforms) : exportTransform(transforms[i], dialect).threw
  THEN CHOOSE i \in 1..Len(transforms) :
         /\ exportTransform(transforms[i], dialect).threw
         /\ \A j \in 1..(i - 1) : ~exportTransform(transforms[j], dialect).threw
  ELSE 0

\* Variant: the statements are joined without a separator.
exportTransforms_NoSeparator(args, dialect) ==
  IF EmptyOrMissing(args, "transforms") THEN [threw |-> FALSE, value |-> ""]
  ELSE IF firstThrowing(args.transforms, dialect) # 0
       THEN exportTransform(args.transforms[firstThrowing(args.transforms, dialect)], dialect)
  ELSE [threw |-> FALSE,
        value |-> Join(Map(args.transforms, LAMBDA t : exportTransform(t, dialect).value), "")]

exportTransforms(args, dialect) ==
  IF EmptyOrMissing(args, "transforms") THEN [threw |-> FALSE, value |-> ""]
  ELSE IF firstThrowing(args.transforms, dialect) # 0
       THEN exportTransform(args.transforms[firstThrowing(args.transforms, dialect)], dialect)
  ELSE [threw |-> FALSE,
        value |-> Join(Map(args.transforms, LAMBDA t : exportTransform(t, dialect).value), "\n")]

(***************************************************************************)
(* Inputs: the Transforms and lists of Transforms handed to the exporter   *)
(***************************************************************************)
MaxSources == 3
MaxCols == 2
MaxBatch == 2

Dialects == {"postgres", "mysql"}

\* Sources without and with schema qualification and alias.
PlainSources ==
  <<[name |-> "A"], [name |-> "B"], [name |-> "C"], [name |-> "D"], [name |-> "E"]>>
DecoratedSources ==
  <<[name |-> "A", schemaName |-> "s"], [name |-> "B", alias |-> "b"],
    [name |-> "C", schemaName |-> "s", alias |-> "c"], [name |-> "D"], [name |-> "E"]>>

SourceLists ==
  {SubSeq(PlainSources, 1, n) : n \in 0..MaxSources}
  \cup {SubSeq(DecoratedSources, 1, n) : n \in 1..MaxSources}

Jn(lt, lc, op, rt, rc) ==
  [leftTable |-> lt, leftColumn |-> lc, operator |-> op, rightTable |-> rt, rightColumn |-> rc]

JoinLists ==
  { <<>>,
    <<Jn("A", "x", "=", "B", "y")>>,
    <<Jn("A", "x", "=", "B", "y"), Jn("B", "z", ">=", "A", "w")>>,
    <<Jn("B", "y", "=", "C", "z")>>,
    <<Jn("A", "x", "=", "B", "y"), Jn("B", "y", "=", "C", "z")>>,
    <<Jn("A", "x", "=", "A", "y")>>,
    <<Jn("C", "z", "<", "A", "x"), Jn("A", "x", "=", "C", "y")>> }

Ot(t, c, d) == [table |-> t, column |-> c, direction |-> d]

OrderByLists == { <<>>, <<Ot("A", "x", "DESC")>>, <<Ot("A", "x", "ASC"), Ot("B", "y", "DESC")>> }
PartitionByLists == { <<>>, <<"A.y">>, <<"A.y", "z">> }

\* f with the property k set to v for every v of vs, and f itself (property unset).
Opt(fs, k, vs) == fs \cup {f @@ (k :> v) : f \in fs, v \in vs}

AggregationSpecs ==
  Opt(Opt({[function |-> fn] : fn \in {"sum", "Count"}},
          "partitionBy", PartitionByLists),
      "orderBy", OrderByLists \ {<<>>})

WindowSpecs ==
  Opt(Opt(Opt({[function |-> fn] : fn \in {"row_number", "Rank", "lag", "ntile"}},
              "partitionBy", PartitionByLists \ {<<"A.y", "z">>}),
          "orderBy", {<<Ot("A", "x", "DESC")>>}),
      "frame", {"", "ROWS"})

PlainColumns ==
  { [sourceTable |-> "A", sourceColumn |-> "x"],
    [sourceTable |-> "", sourceColumn |-> "y", alias |-> "al"],
    [sourceTable |-> "", sourceColumn |-> "", expression |-> "A.b.c"],
    [sourceTable |-> "", sourceColumn |-> "", expression |-> "q", alias |-> "e"] }

AggregationColumns ==
  Opt({[sourceTable |-> "B", sourceColumn |-> "y", aggregation |-> a] : a \in AggregationSpecs}
      \cup {[sourceTable |-> "", sourceColumn |-> "z", aggregation |-> [function |-> "avg"]]},
      "alias", {"t"})

WindowColumns ==
  Opt({[sourceTable |-> "C", sourceColumn |-> "w", window |-> w] : w \in WindowSpecs}
      \cup {[sourceTable |-> "", sourceColumn |-> "v", window |-> [function |-> "lead"]]},
      "alias", {"rn"})

\* The columns that lists of several columns are made of.
CoreColumns ==
  PlainColumns \cup
  { [sourceTable |-> "B", sourceColumn |-> "y", aggregation |-> [function |-> "sum"], alias |-> "t"],
    [sourceTable |-> "C", sourceColumn |-> "w",
     window |-> [function |-> "row_number", orderBy |-> <<Ot("A", "x", "DESC")>>]] }

SeqsUpTo(S, n) == UNION {[1..k -> S] : k \in 0..n}

\* Columns that carry the payload of more than one variant.
MixedColumns ==
  { [sourceTable |-> "B", sourceColumn |-> "y", aggregation |-> [function |-> "sum"],
     window |-> [function |-> "Rank"]],
    [sourceTable |-> "B", sourceColumn |-> "y", aggregation |-> [function |-> "avg"],
     window |-> [function |-> "lag"], expression |-> "B.y + 1", alias |-> "m"],
    [sourceTable |-> "", sourceColumn |-> "", window |-> [function |-> "Rank"],
     expression |-> "B.y + 1"],
    [sourceTable |-> "A", sourceColumn |-> "x", expression |-> "A.x * 2"],
    [sourceTable |-> "", sourceColumn |-> "x", expression |-> "A.x * 2", alias |-> "d"] }

ColumnLists ==
  SeqsUpTo(CoreColumns, MaxCols)
  \cup {<<c>> : c \in AggregationColumns \cup WindowColumns \cup MixedColumns}

FilterLists ==
  { <<>>, <<[expression |-> ""]>>, <<[expression |-> "A.x"]>>,
    <<[expression |-> "A.x"], [expression |-> "B.y"]>> }
GroupByLists == { <<>>, <<"A.x">>, <<"x", "A.y.z">> }
Limits == {0, 10}

\* Transforms that vary the SELECT list.
SelectTransforms ==
  Opt({[name |-> "V", sources |-> s, columns |-> c] :
         s \in {<<[name |-> "A"]>>}, c \in ColumnLists},
      "limit", {10})

\* Transforms that vary the sources and the joins.
JoinTransforms ==
  Opt(Opt(Opt({[name |-> "V"]}, "sources", SourceLists), "joins", JoinLists),
      "filters", {<<[expression |-> "A.x"]>>})

\* Transforms that vary the WHERE, GROUP BY, ORDER BY and LIMIT clauses.
ClauseTransforms ==
  Opt(Opt(Opt(Opt(Opt(
      {[name |-> n, sources |-> s] :
         n \in {"V", "W"},
         s \in {<<[name |-> "A"]>>, <<[name |-> "A"], [name |-> "B"]>>}},
      "columns", {<<>>, <<[sourceTable |-> "C", sourceColumn |-> "w",
                         window |-> [function |-> "row_number",
                                     orderBy |-> <<Ot("A", "x", "DESC")>>]]>>}),
      "filters", FilterLists),
      "groupBy", GroupByLists),
      "orderBy", OrderByLists),
      "limit", Limits)

\* Transforms whose view name or source name holds a double quote.
QuoteTransforms ==
  {[name |-> n, sources |-> <<[name |-> src]>>] : n \in {"V", "a\"b"}, src \in {"A", "c\"d"}}

Transforms == SelectTransforms \cup JoinTransforms \cup ClauseTransforms \cup QuoteTransforms

\* The Transforms that lists of Transforms are made of.
BatchTransforms ==
  { [name |-> "V1", sources |-> <<[name |-> "A"]>>,
     columns |-> <<[sourceTable |-> "A", sourceColumn |-> "x"]>>],
    [name |-> "V2", sources |-> <<[name |-> "A"], [name |-> "B"]>>,
     joins |-> <<Jn("A", "x", "=", "B", "y")>>, limit |-> 10],
    [name |-> "V3", sources |-> <<>>] }

TransformLists == SeqsUpTo(BatchTransforms, MaxBatch)

Calls ==
  {[fn |-> "exportTransform", transform |-> t, dialect |-> d] :
     t \in Transforms, d \in Dialects}
  \cup Opt({[fn |-> "exportTransforms", dialect |-> d] : d \in Dialects},
           "transforms", TransformLists)

(***************************************************************************)
(* The calls                                                               *)
(***************************************************************************)
Pending == [pending |-> TRUE]

Init ==
  /\ call \in Calls
  /\ columnExpressions = <<>>
  /\ parts = <<>>
  /\ ret = Pending
  /\ InterpreterIdle
  /\ DbtIdle
  /\ ValidatorIdle

\* TransformExporter.exportTransform(transform, dialect)
ExportTransform ==
  /\ call.fn = "exportTransform"
  /\ ret = Pending
  /\ columnExpressions' = buildColumnExpressions(call.transform, call.dialect)
  /\ parts' = IF buildFromClause(call.transform, call.dialect).threw THEN <<>>
              ELSE exportTransformParts(call.transform, call.dialect)
  /\ ret' = exportTransform(call.transform, call.dialect)
  /\ UNCHANGED <<validatorVars, call, interpreterVars, dbtVars>>

\* TransformExporter.exportTransforms(transforms, dialect)
ExportTransforms ==
  /\ call.fn = "exportTransforms"
  /\ ret = Pending
  /\ ret' = exportTransforms(call, call.dialect)
  /\ UNCHANGED <<validatorVars, call, columnExpressions, parts, interpreterVars, dbtVars>>

Next == ExportTransform \/ ExportTransforms

Spec == Init /\ [][Next]_vars

\* The call has returned a value.
Returned == Has(ret, "threw") /\ ~ret.threw
\* The call has thrown.
Threw == Has(ret, "threw") /\ ret.threw

(***************************************************************************)
(* Properties of TransformExporter                                         *)
(***************************************************************************)
\* An exportTransform call that has returned its statement.
ExportReturned == call.fn = "exportTransform" /\ Returned

\* `"name"`
Quoted(name) == "\"" \o name \o "\""

\* The Transform has none of filters, groupBy, orderBy and limit.
NoClauses(t) ==
  /\ EmptyOrMissing(t, "filters")
  /\ EmptyOrMissing(t, "groupBy")
  /\ EmptyOrMissing(t, "orderBy")
  /\ ~Has(t, "limit")

ClauseKeywords == {"WHERE", "GROUP BY", "ORDER BY", "LIMIT"}

\* C1: exportTransform throws the 'has no sources' error if and only if the
\* Transform's sources are empty or missing; with at least one source it
\* returns a statement, whatever else is empty or absent.
C1_ThrowsIffNoSources ==
  (call.fn = "exportTransform" /\ Has(ret, "threw")) =>
    LET t == call.transform
        noSources == ~Has(t, "sources") \/ t.sources = <<>>
    IN /\ ret.threw <=> noSources
       /\ ret.threw => ret.error = "Transform " \o t.name \o " has no sources"
       /\ ~ret.threw => /\ StartsWith(ret.value, "-- Transform: " \o t.name \o "\n")
                        /\ EndsWith(ret.value, ";\n")

\* A Transform whose only property besides its name is one source was exported.
C1_Witness ==
  /\ ExportReturned
  /\ DOMAIN call.transform = {"name", "sources"}
  /\ Len(call.transform.sources) = 1

\* The indices of the Joins that name the source.
MatchingJoins(t, src) ==
  {i \in 1..Len(joinsOf(t)) :
     joinsOf(t)[i].leftTable = src.name \/ joinsOf(t)[i].rightTable = src.name}

\* `"lt"."lc" OP "rt"."rc"`
ConditionText(j) ==
  Quoted(j.leftTable) \o "." \o Quoted(j.leftColumn) \o " " \o j.operator \o " "
  \o Quoted(j.rightTable) \o "." \o Quoted(j.rightColumn)

\* The rendered name of a source: schema-qualified and aliased when set.
SourceTarget(src) ==
  (IF Has(src, "schemaName") THEN Quoted(src.schemaName) \o "." ELSE "")
  \o Quoted(src.name)
  \o (IF Has(src, "alias") THEN " AS " \o Quoted(src.alias) ELSE "")

C3_NoKeywordSubstring ==
  (ExportReturned /\ NoClauses(call.transform)) =>
    \A kw \in ClauseKeywords : ~Includes(ret.value, kw)

\* C3, amended: with no filters, groupBy, orderBy and limit the statement has
\* no WHERE, GROUP BY, ORDER BY or LIMIT clause: it consists of the comment,
\* CREATE, SELECT, the column list, FROM and the join lines only, and none of
\* its parts begins with one of the four keywords.
C3_NoClauseParts ==
  (ExportReturned /\ NoClauses(call.transform)) =>
    /\ Len(parts) = 4 + Len(call.transform.sources)
    /\ \A i \in 1..Len(parts) : \A kw \in ClauseKeywords : ~StartsWith(parts[i], kw)
    /\ \A kw \in ClauseKeywords : ~Includes(ret.value, "\n" \o kw \o " ")

\* A Transform without clauses was exported whose window column carries an
\* ORDER BY inside its OVER (...).
C3_Witness ==
  /\ ExportReturned
  /\ NoClauses(call.transform)
  /\ Includes(parts[4], " OVER (ORDER BY ")

\* C4: every WHERE, GROUP BY, ORDER BY and LIMIT keyword that is emitted is
\* followed by non-empty clause content.
C4_NoEmptyClauseBody ==
  ExportReturned =>
    \A i \in 1..Len(parts) : \A kw \in ClauseKeywords :
      StartsWith(parts[i], kw) => Len(parts[i]) > Len(kw) + 1

\* The position of the line that begins with kw in the statement, 0 if none.
LineAt(text, kw) == IndexOf(text, "\n" \o kw)

\* C5: the parts of every statement appear in the fixed order comment,
\* CREATE OR REPLACE VIEW "name" AS, SELECT, column list, FROM, join lines in
\* source order, WHERE, GROUP BY, ORDER BY, LIMIT, ';', each present part
\* exactly once.
C5_PartOrder ==
  ExportReturned =>
    LET t == call.transform
        v == ret.value
        n == Len(t.sources)
        present == <<TRUE, TRUE, n > 1,
                     ~EmptyOrMissing(t, "filters"), ~EmptyOrMissing(t, "groupBy"),
                     ~EmptyOrMissing(t, "orderBy"), Has(t, "limit") /\ t.limit # 0>>
        pos == <<LineAt(v, "SELECT\n"), LineAt(v, "FROM "),
                 IF n > 1 THEN IndexOf(v, "\n  " \o SubSeq(parts[6], 3, Len(parts[6])))
                 ELSE 0,
                 LineAt(v, "WHERE "), LineAt(v, "GROUP BY "),
                 LineAt(v, "ORDER BY "), LineAt(v, "LIMIT ")>>
        kws == <<"\nSELECT\n", "\nFROM ", "\n  INNER JOIN ", "\nWHERE ", "\nGROUP BY ",
                 "\nORDER BY ", "\nLIMIT ">>
    IN /\ StartsWith(v, "-- Transform: " \o t.name \o "\nCREATE OR REPLACE VIEW "
                        \o Quoted(t.name) \o " AS\nSELECT\n  ")
       /\ EndsWith(v, ";\n") /\ CountOcc(v, ";") = 1
       /\ \A i \in 1..7 : present[i] <=> pos[i] # 0
       /\ \A i \in 1..7 : i # 3 => CountOcc(v, kws[i]) <= 1
       /\ \A i, j \in 1..7 : (i < j /\ present[i] /\ present[j]) => pos[i] < pos[j]
       /\ \A k \in 2..n :
            /\ \/ StartsWith(parts[4 + k], "  INNER JOIN " \o SourceTarget(t.sources[k]))
               \/ StartsWith(parts[4 + k], "  CROSS JOIN " \o SourceTarget(t.sources[k]))
            /\ LineAt(v, "FROM ") < IndexOf(v, "\n" \o parts[4 + k])
            /\ k > 2 => IndexOf(v, "\n" \o parts[3 + k]) < IndexOf(v, "\n" \o parts[4 + k])
            /\ \A i \in 4..7 : present[i] => IndexOf(v, "\n" \o parts[4 + k]) < pos[i]
       /\ Len(parts) = 4 + n + Cardinality({i \in 4..7 : present[i]})

\* A Transform with a join and all of WHERE, GROUP BY, ORDER BY and LIMIT was
\* exported.
C5_Witness ==
  /\ ExportReturned
  /\ Len(call.transform.sources) = 2
  /\ Len(parts) = 10

\* The sum of Len(outs[i]) + 1 over i < k.
RECURSIVE Offset(_, _)
Offset(outs, k) == IF k <= 1 THEN 0 ELSE Offset(outs, k - 1) + Len(outs[k - 1]) + 1

\* C7: for a list of Transforms with at least one source each,
\* exportTransforms returns the outputs of exportTransform in list order,
\* joined by one newline, and so contains every view name; for an empty or
\* missing list it returns the empty string.
C7_ExportAll ==
  (call.fn = "exportTransforms" /\ Has(ret, "threw")) =>
    IF ~Has(call, "transforms") \/ call.transforms = <<>>
    THEN ~ret.threw /\ ret.value = ""
    ELSE (\A i \in 1..Len(call.transforms) :
            Has(call.transforms[i], "sources") /\ call.transforms[i].sources # <<>>)
         => LET ts == call.transforms
                outs == [i \in 1..Len(ts) |-> exportTransform(ts[i], call.dialect).value]
            IN /\ ~ret.threw
               /\ Len(ret.value) = Offset(outs, Len(ts) + 1) - 1
               /\ \A i \in 1..Len(ts) :
                    /\ SubSeq(ret.value, Offset(outs, i) + 1,
                              Offset(outs, i) + Len(outs[i])) = outs[i]
                    /\ i > 1 => SubSeq(ret.value, Offset(outs, i), Offset(outs, i)) = "\n"
                    /\ Includes(ret.value, "VIEW " \o Quoted(ts[i].name) \o " AS")
               /\ Len(ts) = 2 => ret.value = outs[1] \o "\n" \o outs[2]

\* Two Transforms with different names were exported as one list.
C7_Witness ==
  /\ call.fn = "exportTransforms" /\ Returned
  /\ Has(call, "transforms")
  /\ Len(call.transforms) = 2
  /\ call.transforms[1].name # call.transforms[2].name
  /\ ret.value # ""

\* The upper-case spelling of the function names used in the inputs.
UpperName(fn) ==
  CASE fn = "sum" -> "SUM" [] fn = "Count" -> "COUNT" [] fn = "avg" -> "AVG"
    [] fn = "row_number" -> "ROW_NUMBER" [] fn = "Rank" -> "RANK"
    [] fn = "lag" -> "LAG" [] fn = "lead" -> "LEAD" [] fn = "ntile" -> "NTILE"

\* `"table"."column"`, or `"column"` when the table is empty.
ColumnReference(col) ==
  (IF col.sourceTable # "" THEN Quoted(col.sourceTable) \o "." ELSE "")
  \o Quoted(col.sourceColumn)

\* The columns of the call's Transform.
Columns == IF Has(call.transform, "columns") THEN call.transform.columns ELSE <<>>

\* The exportTransform call has built its column list.
ColumnsBuilt == call.fn = "exportTransform" /\ Has(ret, "threw")

\* C8: an aggregation column renders as FUNC(<column reference>), upper-cased;
\* it is wrapped in OVER (PARTITION BY ...[ ORDER BY ...]) if and only if its
\* partitionBy is non-empty; without partitionBy it contains no OVER, even
\* with an orderBy on the aggregation; AS "alias" is appended when set.
C8_AggregationColumn ==
  ColumnsBuilt =>
    \A i \in 1..Len(Columns) :
      Has(Columns[i], "aggregation") =>
        LET col == Columns[i]
            agg == col.aggregation
            e == columnExpressions[i]
            head == "  " \o UpperName(agg.function) \o "(" \o ColumnReference(col) \o ")"
            windowed == Has(agg, "partitionBy") /\ agg.partitionBy # <<>>
            ordered == Has(agg, "orderBy") /\ agg.orderBy # <<>>
            tail == IF Has(col, "alias") THEN " AS " \o Quoted(col.alias) ELSE ""
        IN /\ StartsWith(e, head)
           /\ windowed <=> StartsWith(e, head \o " OVER (PARTITION BY ")
           /\ windowed <=> Includes(e, "OVER")
           /\ ~windowed => e = head \o tail
           /\ windowed =>
                /\ EndsWith(e, ")" \o tail)
                /\ \A p \in 1..Len(agg.partitionBy) : Includes(e, Quoted(agg.partitionBy[p]))
                /\ ordered <=> Includes(e, " ORDER BY ")
                /\ ordered => IndexOf(e, "PARTITION BY ") < IndexOf(e, " ORDER BY ")

\* An aggregation column with an orderBy but no partitionBy was rendered.
C8_Witness ==
  /\ ColumnsBuilt
  /\ \E i \in 1..Len(Columns) :
       /\ Has(Columns[i], "aggregation")
       /\ Has(Columns[i].aggregation, "orderBy")
       /\ ~Has(Columns[i].aggregation, "partitionBy")
       /\ Has(Columns[i], "alias")
       /\ ~Includes(columnExpressions[i], "OVER")

\* C9: a window column renders as FUNC(args) OVER (...): no argument exactly
\* for ROW_NUMBER, RANK, DENSE_RANK, PERCENT_RANK, CUME_DIST, the column
\* reference for every other function; the parentheses of OVER hold
\* PARTITION BY, ORDER BY and the frame, in this order, each only if present,
\* and nothing when none is present.
C9_WindowColumn ==
  ColumnsBuilt =>
    \A i \in 1..Len(Columns) :
      (Has(Columns[i], "window") /\ ~Has(Columns[i], "aggregation")) =>
        LET col == Columns[i]
            w == col.window
            e == columnExpressions[i]
            F == UpperName(w.function)
            noArg == F \in {"ROW_NUMBER", "RANK", "DENSE_RANK", "PERCENT_RANK", "CUME_DIST"}
            head == "  " \o F \o "(" \o (IF noArg THEN "" ELSE ColumnReference(col))
                    \o ") OVER ("
            tail == ")" \o (IF Has(col, "alias") THEN " AS " \o Quoted(col.alias) ELSE "")
            partitioned == Has(w, "partitionBy") /\ w.partitionBy # <<>>
            ordered == Has(w, "orderBy") /\ w.orderBy # <<>>
            framed == Has(w, "frame") /\ w.frame # ""
            body == SubSeq(e, Len(head) + 1, Len(e) - Len(tail))
        IN /\ StartsWith(e, head)
           /\ EndsWith(e, tail)
           /\ noArg <=> StartsWith(e, "  " \o F \o "() OVER (")
           /\ partitioned <=> StartsWith(body, "PARTITION BY ")
           /\ ordered <=> Includes(body, "ORDER BY ")
           /\ framed <=> EndsWith(body, "ROWS")
           /\ (partitioned /\ ordered) => Includes(body, Quoted(w.partitionBy[Len(w.partitionBy)])
                                                         \o " ORDER BY ")
           /\ (~partitioned /\ ordered) => StartsWith(body, "ORDER BY ")
           /\ (framed /\ ordered) =>
                EndsWith(body, " " \o w.orderBy[Len(w.orderBy)].direction \o " ROWS")
           /\ (framed /\ partitioned /\ ~ordered) =>
                EndsWith(body, Quoted(w.partitionBy[Len(w.partitionBy)]) \o " ROWS")
           /\ (framed /\ ~partitioned /\ ~ordered) => body = "ROWS"
           /\ (~partitioned /\ ~ordered /\ ~framed) <=> body = ""

\* A window column with a function outside both lists and with no partition,
\* order or frame was rendered with the column as argument and OVER ().
C9_Witness ==
  /\ ColumnsBuilt
  /\ \E i \in 1..Len(Columns) :
       /\ Has(Columns[i], "window")
       /\ Columns[i].window = [function |-> "ntile"]
       /\ columnExpressions[i] = "  NTILE(\"C\".\"w\") OVER ()"

\* The text that identifies a column in its rendering.
ColumnMark(col) ==
  IF ~Has(col, "aggregation") /\ ~Has(col, "window")
     /\ Has(col, "expression") /\ col.sourceColumn = ""
  THEN col.expression
  ELSE IF ~Has(col, "aggregation") /\ Has(col, "window")
          /\ UpperName(col.window.function) \in {"ROW_NUMBER", "RANK"}
       THEN UpperName(col.window.function) \o "()"
  ELSE ColumnReference(col)

\* C10: with at least one column the SELECT list has exactly one entry per
\* column, in the order of transform.columns; the SELECT list is the single
\* entry * if and only if the Transform has no columns.
C10_SelectList ==
  ExportReturned =>
    /\ Columns # <<>> =>
         /\ Split(parts[4], ",\n") = columnExpressions
         /\ Len(columnExpressions) = Len(Columns)
         /\ \A i \in 1..Len(Columns) :
              StartsWith(columnExpressions[i], "  ")
              /\ Includes(columnExpressions[i], ColumnMark(Columns[i]))
    /\ Columns = <<>> <=> parts[4] = "  *"

\* Two different columns were exported.
C10_Witness ==
  /\ ExportReturned
  /\ Len(Columns) = 2
  /\ ColumnMark(Columns[1]) # ColumnMark(Columns[2])
  /\ CountOcc(ret.value, ",\n") = 1

\* The Joins chain the sources: the i-th Join links source i and source i+1.
JoinChain(t) ==
  /\ Len(t.sources) = 3
  /\ Len(joinsOf(t)) = 2
  /\ \A i \in 1..2 :
       /\ t.joins[i].leftTable = t.sources[i].name
       /\ t.joins[i].rightTable = t.sources[i + 1].name

\* C14: for sources [S0, S1, S2] with the Joins S0.a = S1.b and S1.c = S2.d
\* the join lines are exactly INNER JOIN "S1" ON "S0"."a" = "S1"."b" and
\* INNER JOIN "S2" ON "S1"."c" = "S2"."d": the ON condition of a source never
\* references a source that is joined later.
C14_JoinChain ==
  (ExportReturned /\ Has(call.transform, "sources") /\ JoinChain(call.transform)) =>
    \A k \in 2..3 :
      parts[4 + k] = "  INNER JOIN " \o SourceTarget(call.transform.sources[k]) \o " ON "
                     \o ConditionText(call.transform.joins[k - 1])

(***************************************************************************)
(* TransformInterpreter: syntax nodes and the helpers it imports           *)
(***************************************************************************)
\* A variable or a member-access chain `a.b.c`: its name fragments in order.
NameNode(frs) == [kind |-> "name", fragments |-> frs]

\* An InfixExpressionNode `left op right`; text is its source text.
InfixNode(l, o, r, txt) ==
  [kind |-> "infix", op |-> o, leftExpression |-> l, rightExpression |-> r, text |-> txt]

\* Any other expression (a literal string, a call, a list): not a name chain.
OtherNode(txt) == [kind |-> "other", text |-> txt]

\* A comma-separated list of expressions: not a name chain either.
ListNode(es) == [kind |-> "list", elements |-> es]

\* Option values of the analyzer utilities.
Some(v) == [some |-> TRUE, value |-> v]
None == [some |-> FALSE]
unwrap_or(o, d) == IF o.some THEN o.value ELSE d

\* destructureComplexVariable: the name fragments of a name chain, or failure.
destructureComplexVariable(node) ==
  IF node.kind = "name" THEN Some(node.fragments) ELSE None

\* extractVariableFromExpression: the single token of a one-token
\* expression, or failure.
extractVariableFromExpression(node) ==
  IF node.kind = "name" /\ Len(node.fragments) = 1 THEN Some(node.fragments[1]) ELSE None

\* extractElementName: the last fragment is the name, the others the schema.
extractElementName(nameNode) ==
  [name |-> nameNode.fragments[Len(nameNode.fragments)],
   schemaName |-> SubSeq(nameNode.fragments, 1, Len(nameNode.fragments) - 1)]

\* settingMap[name]?.at(0) of aggregateSettingList(attributeList).getValue():
\* the first attribute of that name, or failure.
settingAt0(attributeList, name) ==
  IF \E i \in 1..Len(attributeList) : attributeList[i].name = name
  THEN Some(attributeList[CHOOSE i \in 1..Len(attributeList) :
                            /\ attributeList[i].name = name
                            /\ \A j \in 1..(i - 1) : attributeList[j].name # name])
  ELSE None

\* toLowerCase of one character.
LowerChar(c) ==
  LET i == IndexOf(UpperLetters, c) IN
  IF i = 0 THEN c ELSE SubSeq(LowerLetters, i, i)

\* String.prototype.toLowerCase
RECURSIVE toLowerCase(_)
toLowerCase(str) ==
  IF Len(str) = 0 THEN ""
  ELSE LowerChar(SubSeq(str, 1, 1)) \o toLowerCase(SubSeq(str, 2, Len(str)))

Digits == "0123456789"

\* The value of the longest prefix of decimal digits of str, acc so far.
RECURSIVE digitsValue(_, _)
digitsValue(str, acc) ==
  IF Len(str) = 0 \/ IndexOf(Digits, SubSeq(str, 1, 1)) = 0 THEN acc
  ELSE digitsValue(SubSeq(str, 2, Len(str)), 10 * acc + IndexOf(Digits, SubSeq(str, 1, 1)) - 1)

\* parseInt(str, 10): an optional sign, then the longest prefix of digits;
\* NaN when there is no digit.
parseInt(str) ==
  LET neg == Len(str) > 0 /\ SubSeq(str, 1, 1) = "-"
      signed == Len(str) > 0 /\ SubSeq(str, 1, 1) \in {"-", "+"}
      rest == IF signed THEN SubSeq(str, 2, Len(str)) ELSE str
  IN IF Len(rest) = 0 \/ IndexOf(Digits, SubSeq(rest, 1, 1)) = 0
     THEN [isNaN |-> TRUE]
     ELSE [isNaN |-> FALSE,
           value |-> IF neg THEN 0 - digitsValue(rest, 0) ELSE digitsValue(rest, 0)]

\* obj.k = v
Put(obj, k, v) == [x \in DOMAIN obj \cup {k} |-> IF x = k THEN v ELSE obj[x]]

\* new CompileError(code, message, node)
CompileError(code, message) == [code |-> code, message |-> message]

\* What a step of the interpreter leaves: this.transform and its diagnostics.
Step(t, es) == [transform |-> t, errors |-> es]

(***************************************************************************)
(* TransformInterpreter                                                    *)
(***************************************************************************)
\* this.transform as the constructor sets it (name, schemaName and token
\* are undefined).
NewTransform ==
  [alias |-> null, sources |-> <<>>, columns |-> <<>>, joins |-> <<>>, filters |-> <<>>]

interpretName(t, nameNode) ==
  LET en == extractElementName(nameNode) IN
  IF Len(en.schemaName) > 1
  THEN Step(Put(Put(t, "name", en.name), "schemaName", Join(en.schemaName, ".")),
            <<CompileError("UNSUPPORTED", "Nested schema is not supported")>>)
  ELSE Step(Put(Put(t, "name", en.name), "schemaName",
                IF Len(en.schemaName) > 0 THEN en.schemaName[1] ELSE null),
            <<>>)

\* One iteration of the loop of interpretSources over the element attr.
interpretSource(st, attr) ==
  IF ~Has(attr, "name") /\ ~Has(attr, "value") THEN st
  ELSE LET sourceExpr == IF Has(attr, "name") THEN attr.name ELSE attr.value
           fragments == unwrap_or(destructureComplexVariable(sourceExpr), <<>>)
       IN IF Len(fragments) = 0
          THEN Step(st.transform,
                    Append(st.errors, CompileError("INVALID_NAME", "Invalid source specification")))
          ELSE LET source ==
                     IF Len(fragments) > 1
                     THEN [name |-> fragments[Len(fragments)],
                           schemaName |-> Join(SubSeq(fragments, 1, Len(fragments) - 1), ".")]
                     ELSE [name |-> fragments[Len(fragments)]]
               IN Step(Put(st.transform, "sources", Append(st.transform.sources, source)),
                       st.errors)

RECURSIVE interpretSourceLoop(_, _)
interpretSourceLoop(st, elementList) ==
  IF Len(elementList) = 0 THEN st
  ELSE interpretSourceLoop(interpretSource(st, elementList[1]), Tail(elementList))

interpretSources(t, decl) ==
  IF ~Has(decl, "sourceList")
  THEN Step(t, <<CompileError("UNEXPECTED_TOKEN",
                              "Transform must specify source tables/transforms")>>)
  ELSE interpretSourceLoop(Step(t, <<>>), decl.sourceList)

\* Variant: the direction token stays among the fragments.
parseOrderBy_KeepDirection(expression) ==
  LET all == unwrap_or(destructureComplexVariable(expression), <<>>)
      lastFragment == IF Len(all) > 0 THEN toLowerCase(all[Len(all)]) ELSE ""
      direction == IF lastFragment = "desc" THEN "DESC" ELSE "ASC"
  IN IF Len(all) = 2
     THEN <<[table |-> all[1], column |-> all[2], direction |-> direction]>>
     ELSE <<>>

\* Helper: parse an order-by expression into zero or one order term.
parseOrderBy(expression) ==
  LET all == unwrap_or(destructureComplexVariable(expression), <<>>)
      lastFragment == IF Len(all) > 0 THEN toLowerCase(all[Len(all)]) ELSE ""
      direction == IF lastFragment = "desc" THEN "DESC" ELSE "ASC"
      fragments == IF lastFragment \in {"desc", "asc"}
                   THEN SubSeq(all, 1, Len(all) - 1) ELSE all
  IN IF Len(fragments) = 2
     THEN <<[table |-> fragments[1], column |-> fragments[2], direction |-> direction]>>
     ELSE <<>>

\* Helper: the string representation of an expression node.
expressionToString(expression) ==
  Join(unwrap_or(destructureComplexVariable(expression), <<>>), ".")

\* The attribute of that name when it is present with a value.
settingWithValue(attributeList, name) ==
  LET o == settingAt0(attributeList, name) IN
  IF o.some /\ Has(o.value, "value") THEN o ELSE None

\* extractVariableFromExpression of an attribute's value (undefined fails).
attributeVariable(attr) ==
  IF Has(attr, "value") THEN extractVariableFromExpression(attr.value) ELSE None

\* The partitionBy and orderBy that interpretColumn adds to an aggregation
\* or window specification.
withPartitionAndOrder(spec, attributeList) ==
  LET partitionNode == settingWithValue(attributeList, "partition_by")
      orderByNode == settingWithValue(attributeList, "order_by")
      s1 == IF partitionNode.some
            THEN Put(spec, "partitionBy",
                     unwrap_or(destructureComplexVariable(partitionNode.value.value), <<>>))
            ELSE spec
  IN IF orderByNode.some
     THEN Put(s1, "orderBy", parseOrderBy(orderByNode.value.value))
     ELSE s1

\* The column that interpretColumn starts from: the head expression.
columnHead(expression) ==
  LET fragments == unwrap_or(destructureComplexVariable(expression), <<>>) IN
  IF Len(fragments) = 2
  THEN [sourceTable |-> fragments[1], sourceColumn |-> fragments[2]]
  ELSE IF Len(fragments) = 1
  THEN [sourceTable |-> "", sourceColumn |-> fragments[1]]
  ELSE [sourceTable |-> "", sourceColumn |-> "",
        expression |-> expressionToString(expression)]

\* The column after the attributes as, agg, window and expr are applied.
columnWithAttributes(column, attributeList) ==
  LET asNode == settingAt0(attributeList, "as")
      aggNode == settingAt0(attributeList, "agg")
      windowNode == settingAt0(attributeList, "window")
      frameNode == settingWithValue(attributeList, "frame")
      exprNode == settingWithValue(attributeList, "expr")
      c1 == IF asNode.some /\ attributeVariable(asNode.value).some
            THEN Put(column, "alias", attributeVariable(asNode.value).value)
            ELSE column
      c2 == IF aggNode.some
            THEN Put(c1, "aggregation",
                     withPartitionAndOrder(
                       [function |-> unwrap_or(attributeVariable(aggNode.value), "")],
                       attributeList))
            ELSE c1
      w1 == withPartitionAndOrder(
              [function |-> unwrap_or(attributeVariable(windowNode.value), "")],
              attributeList)
      c3 == IF windowNode.some
            THEN Put(c2, "window",
                     IF frameNode.some
                     THEN Put(w1, "frame", expressionToString(frameNode.value.value))
                     ELSE w1)
            ELSE c2
  IN IF exprNode.some
     THEN Put(c3, "expression", expressionToString(exprNode.value.value))
     ELSE c3

interpretColumn(t, columnNode) ==
  IF ~Has(columnNode, "expression")
  THEN Step(t, <<CompileError("INVALID_COLUMN", "Column expression is required")>>)
  ELSE LET column == IF Has(columnNode, "attributeList")
                     THEN columnWithAttributes(columnHead(columnNode.expression),
                                               columnNode.attributeList)
                     ELSE columnHead(columnNode.expression)
       IN Step(Put(t, "columns", Append(t.columns, column)), <<>>)

\* statement.expression instanceof InfixExpressionNode with both operands.
isFullInfix(statement) ==
  /\ statement.expression.kind = "infix"
  /\ Has(statement.expression, "leftExpression")
  /\ Has(statement.expression, "rightExpression")

interpretJoin(t, statement) ==
  IF ~Has(statement, "expression")
  THEN Step(t, <<CompileError("INVALID_NAME", "Join expression is required")>>)
  ELSE LET infix == statement.expression
           leftFragments == unwrap_or(destructureComplexVariable(infix.leftExpression), <<>>)
           rightFragments == unwrap_or(destructureComplexVariable(infix.rightExpression), <<>>)
       IN IF isFullInfix(statement) /\ Len(leftFragments) = 2 /\ Len(rightFragments) = 2
          THEN Step(Put(t, "joins",
                        Append(t.joins,
                               [leftTable |-> leftFragments[1],
                                leftColumn |-> leftFragments[2],
                                operator |-> IF TruthyField(infix, "op") THEN infix.op ELSE "=",
                                rightTable |-> rightFragments[1],
                                rightColumn |-> rightFragments[2]])),
                    <<>>)
          ELSE Step(t, <<CompileError("INVALID_NAME",
                           "Invalid join syntax. Expected: Table.column = Table.column")>>)

interpretWhere(t, statement) ==
  IF ~Has(statement, "expression")
  THEN Step(t, <<CompileError("INVALID_NAME", "Where expression is required")>>)
  ELSE Step(Put(t, "filters",
                Append(t.filters, [expression |-> expressionToString(statement.expression)])),
            <<>>)

interpretGroupBy(t, statement) ==
  IF ~Has(statement, "expression")
  THEN Step(t, <<CompileError("INVALID_NAME", "Group by expression is required")>>)
  ELSE Step(Put(t, "groupBy",
                (IF Has(t, "groupBy") THEN t.groupBy ELSE <<>>)
                \o unwrap_or(destructureComplexVariable(statement.expression), <<>>)),
            <<>>)

interpretOrderBy(t, statement) ==
  IF ~Has(statement, "expression")
  THEN Step(t, <<CompileError("INVALID_NAME", "Order by expression is required")>>)
  ELSE Step(Put(t, "orderBy",
                (IF Has(t, "orderBy") THEN t.orderBy ELSE <<>>)
                \o parseOrderBy(statement.expression)),
            <<>>)

interpretLimit(t, statement) ==
  IF ~Has(statement, "expression")
  THEN Step(t, <<CompileError("INVALID_NAME", "Limit expression is required")>>)
  ELSE LET limitStr == unwrap_or(extractVariableFromExpression(statement.expression), "0")
           limit == parseInt(limitStr)
       IN IF limit.isNaN
          THEN Step(t, <<CompileError("INVALID_NAME", "Limit must be a number")>>)
          ELSE Step(Put(t, "limit", limit.value), <<>>)

interpretUsing(t, statement) ==
  IF ~Has(statement, "expression")
  THEN Step(t, <<CompileError("INVALID_NAME", "Using expression is required")>>)
  ELSE Step(Put(t, "nestedTransform",
                [transformName |->
                   unwrap_or(extractVariableFromExpression(statement.expression), ""),
                 sources |-> <<>>]),
            <<>>)

interpretAdd(t, statement) ==
  IF ~Has(statement, "expression")
  THEN Step(t, <<CompileError("INVALID_NAME", "Add expression is required")>>)
  ELSE IF isFullInfix(statement) /\ Has(statement.expression, "op")
          /\ statement.expression.op = "="
  THEN Step(Put(t, "derivedColumns",
                Append(IF Has(t, "derivedColumns") THEN t.derivedColumns ELSE <<>>,
                       [name |-> unwrap_or(extractVariableFromExpression(
                                             statement.expression.leftExpression), ""),
                        expression |-> expressionToString(
                                         statement.expression.rightExpression)])),
            <<>>)
  ELSE Step(t, <<CompileError("INVALID_NAME", "Add syntax must be: column_name = expression")>>)

\* statement.keyword?.value.toLowerCase()
keywordOf(statement) ==
  IF Has(statement, "keyword") THEN toLowerCase(statement.keyword) ELSE "undefined"

\* Variant: a statement of an unknown keyword is dropped without a diagnostic.
interpretStatement_SilentDefault(t, statement) ==
  LET keyword == keywordOf(statement) IN
  CASE keyword = "join" -> interpretJoin(t, statement)
    [] keyword = "where" -> interpretWhere(t, statement)
    [] keyword = "group_by" -> interpretGroupBy(t, statement)
    [] keyword = "order_by" -> interpretOrderBy(t, statement)
    [] keyword = "limit" -> interpretLimit(t, statement)
    [] keyword = "using" -> interpretUsing(t, statement)
    [] keyword = "add" -> interpretAdd(t, statement)
    [] OTHER -> Step(t, <<>>)

interpretStatement(t, statement) ==
  LET keyword == keywordOf(statement) IN
  CASE keyword = "join" -> interpretJoin(t, statement)
    [] keyword = "where" -> interpretWhere(t, statement)
    [] keyword = "group_by" -> interpretGroupBy(t, statement)
    [] keyword = "order_by" -> interpretOrderBy(t, statement)
    [] keyword = "limit" -> interpretLimit(t, statement)
    [] keyword = "using" -> interpretUsing(t, statement)
    [] keyword = "add" -> interpretAdd(t, statement)
    [] OTHER -> Step(t, <<CompileError("UNEXPECTED_TOKEN",
                                       "Unknown transform keyword: " \o keyword)>>)

(***************************************************************************)
(* The declarations that are interpreted                                   *)
(***************************************************************************)
MaxBody == 2

\* [name: value] of an attribute list.
Attr(n, v) == [name |-> n, value |-> v]

ColumnNode(e) == [type |-> "column", expression |-> e]
ColumnNodeWith(e, as) == [type |-> "column", expression |-> e, attributeList |-> as]
StatementNode(k, e) == [type |-> "statement", keyword |-> k, expression |-> e]

TrueLiteral == NameNode(<<"true">>)
WhereInfix == InfixNode(NameNode(<<"A", "active">>), "=", TrueLiteral, "A.active = true")
WhereAnd ==
  InfixNode(WhereInfix, "and",
            InfixNode(NameNode(<<"B", "date">>), ">", OtherNode("'2022-01-01'"),
                      "B.date > '2022-01-01'"),
            "A.active = true and B.date > '2022-01-01'")

\* The body entries that bodies of several entries are made of.
CoreEntries ==
  { ColumnNode(NameNode(<<"A", "x">>)),
    ColumnNode(NameNode(<<"y">>)),
    [type |-> "column"],
    StatementNode("join", InfixNode(NameNode(<<"A", "x">>), "=", NameNode(<<"B", "y">>),
                                    "A.x = B.y")),
    StatementNode("join", NameNode(<<"A", "x">>)),
    StatementNode("where", WhereInfix),
    StatementNode("group_by", NameNode(<<"A", "x">>)),
    StatementNode("limit", NameNode(<<"10">>)),
    StatementNode("limit", NameNode(<<"abc">>)),
    StatementNode("limit", OtherNode("(1 + 2)")),
    StatementNode("FOO", NameNode(<<"A", "x">>)),
    [type |-> "element"] }

\* The other entries, interpreted as the only entry of a body.
SingleEntries ==
  { ColumnNodeWith(NameNode(<<"x">>), <<Attr("as", NameNode(<<"xid">>))>>),
    ColumnNodeWith(NameNode(<<"B", "y">>),
                   <<Attr("agg", NameNode(<<"sum">>)),
                     Attr("partition_by", NameNode(<<"A", "x">>)),
                     Attr("as", NameNode(<<"t">>))>>),
    ColumnNodeWith(NameNode(<<"B", "y">>),
                   <<Attr("agg", NameNode(<<"count">>)),
                     Attr("order_by", NameNode(<<"A", "x", "desc">>))>>),
    ColumnNodeWith(NameNode(<<"B", "y">>),
                   <<Attr("window", NameNode(<<"row_number">>)),
                     Attr("partition_by", NameNode(<<"A", "x">>)),
                     Attr("order_by", NameNode(<<"B", "y", "DESC">>)),
                     Attr("frame", NameNode(<<"ROWS">>)),
                     Attr("as", NameNode(<<"rn">>)),
                     Attr("as", NameNode(<<"second">>))>>),
    ColumnNodeWith(NameNode(<<"B", "y">>),
                   <<Attr("window", NameNode(<<"lag">>)), [name |-> "partition_by"],
                     [name |-> "as"]>>),
    ColumnNodeWith(OtherNode("count(*)"),
                   <<Attr("expr", NameNode(<<"A", "b", "c">>)), Attr("as", NameNode(<<"n">>))>>),
    ColumnNode(NameNode(<<"A", "b", "c">>)),
    ColumnNode(OtherNode("count(*)")),
    StatementNode("JOIN", InfixNode(NameNode(<<"B", "y">>), "", NameNode(<<"A", "x">>),
                                    "B.y A.x")),
    StatementNode("join", [kind |-> "infix", op |-> "=",
                           leftExpression |-> NameNode(<<"A", "x">>), text |-> "A.x ="]),
    StatementNode("join", InfixNode(NameNode(<<"A", "x">>), "=", NameNode(<<"y">>), "A.x = y")),
    StatementNode("join", InfixNode(NameNode(<<"A", "x">>), "+", NameNode(<<"B", "y">>),
                                    "A.x + B.y")),
    StatementNode("join", InfixNode(NameNode(<<"A", "x">>), "<=", NameNode(<<"B", "y">>),
                                    "A.x <= B.y")),
    StatementNode("where", NameNode(<<"A", "active">>)),
    StatementNode("where", WhereAnd),
    StatementNode("group_by", ListNode(<<NameNode(<<"A", "x">>), NameNode(<<"A", "y">>)>>)),
    StatementNode("Order_By", NameNode(<<"A", "x", "DESC">>)),
    StatementNode("order_by", NameNode(<<"A", "x">>)),
    StatementNode("order_by", NameNode(<<"x">>)),
    StatementNode("limit", NameNode(<<"7up">>)),
    StatementNode("using", NameNode(<<"W">>)),
    StatementNode("using", NameNode(<<"s", "W">>)),
    StatementNode("add", InfixNode(NameNode(<<"n">>), "=", NameNode(<<"A", "x">>), "n = A.x")),
    StatementNode("add", InfixNode(NameNode(<<"n">>), "<", NameNode(<<"A", "x">>), "n < A.x")),
    StatementNode("bar", OtherNode("1")),
    [type |-> "statement", expression |-> NameNode(<<"A">>)] }
  \cup {[type |-> "statement", keyword |-> k] :
          k \in {"join", "where", "group_by", "order_by", "limit", "using", "add"}}

BodyEntries == CoreEntries \cup SingleEntries

Bodies == SeqsUpTo(CoreEntries, MaxBody) \cup {<<e>> : e \in SingleEntries}

NameNodes == {NameNode(<<"V">>), NameNode(<<"s", "V">>), NameNode(<<"a", "b", "V">>)}

\* Source lists: each element is an attribute with a name, a value or neither.
SourceListNodes ==
  { <<>>,
    <<[name |-> NameNode(<<"A">>)]>>,
    <<[name |-> NameNode(<<"A">>)], [name |-> NameNode(<<"B">>)]>>,
    <<[name |-> NameNode(<<"A">>)], [name |-> OtherNode("1 + 2")],
      [value |-> NameNode(<<"s", "t", "B">>)]>>,
    <<[kind |-> "attribute"], [name |-> NameNode(<<"s", "B">>), value |-> NameNode(<<"C">>)]>> }

\* Declarations that vary the name and the source list, and those that vary
\* the body.
\* Order-by expressions: with and without a direction token, with too few
\* and too many fragments, and one that is not a name chain.
OrderByExpressions ==
  { NameNode(<<"A", "x">>), NameNode(<<"B", "y", "desc">>), NameNode(<<"A", "x", "Asc">>),
    NameNode(<<"x", "DESC">>), NameNode(<<"asc">>), NameNode(<<"A", "b", "c">>),
    NameNode(<<"s", "A", "x", "desc">>), OtherNode("rank()") }

\* Bodies of two order_by statements.
OrderByBodies ==
  {<<StatementNode("order_by", a), StatementNode("order_by", b)>> :
     a \in OrderByExpressions, b \in OrderByExpressions}

\* Bodies that hold add and using statements next to a column or a filter.
PlaceholderBodies ==
  { <<ColumnNode(NameNode(<<"A", "x">>)),
      StatementNode("add", InfixNode(NameNode(<<"n">>), "=", NameNode(<<"A", "x">>), "n = A.x")),
      StatementNode("using", NameNode(<<"W">>))>>,
    <<StatementNode("using", NameNode(<<"W">>)),
      StatementNode("where", WhereInfix),
      StatementNode("add", InfixNode(NameNode(<<"n">>), "=", NameNode(<<"A", "x">>), "n = A.x"))>>,
    <<StatementNode("add", InfixNode(NameNode(<<"n">>), "=", NameNode(<<"A", "x">>), "n = A.x")),
      StatementNode("add", InfixNode(NameNode(<<"m">>), "=", OtherNode("A.x * 2"), "m = A.x * 2"))>> }

Declarations ==
  Opt({[name |-> n, body |-> <<>>] : n \in NameNodes}, "sourceList", SourceListNodes)
  \cup {[name |-> NameNode(<<"V">>), body |-> b, sourceList |-> <<[name |-> NameNode(<<"A">>)]>>] :
          b \in PlaceholderBodies}
  \cup {[name |-> NameNode(<<"V">>), body |-> b, sourceList |-> <<[name |-> NameNode(<<"A">>)]>>] :
          b \in OrderByBodies}
  \cup {[name |-> NameNode(<<"V">>), body |-> b,
          sourceList |-> <<[name |-> NameNode(<<"A">>)], [name |-> NameNode(<<"B">>)]>>] :
          b \in Bodies}
  \cup {[name |-> NameNode(<<"V">>), body |-> <<e>>] : e \in CoreEntries}

(***************************************************************************)
(* interpret(): the name, the source list, then the body entry by entry;   *)
(* the Transform it fills is then exported by the SQL exporter.            *)
(***************************************************************************)
\* The position of interpret(): at the name, at the sources, at the body
\* entry i, returned, or exported.
At(a, i) == [at |-> a, i |-> i]

\* new TransformInterpreter(declarationNode, env)
InterpInit ==
  /\ declarationNode \in Declarations
  /\ thisTransform = NewTransform
  /\ errors = <<>>
  /\ pc = At("name", 0)
  /\ ExporterIdle
  /\ ret = NoCall
  /\ DbtIdle
  /\ ValidatorIdle

\* ...this.interpretName(this.declarationNode.name)
InterpretName ==
  /\ pc.at = "name"
  /\ LET r == interpretName(thisTransform, declarationNode.name) IN
       /\ thisTransform' = r.transform
       /\ errors' = errors \o r.errors
  /\ pc' = At("sources", 0)
  /\ UNCHANGED <<validatorVars, declarationNode, exporterVars, dbtVars>>

\* ...this.interpretSources(this.declarationNode.sourceList)
InterpretSources ==
  /\ pc.at = "sources"
  /\ LET r == interpretSources(thisTransform, declarationNode) IN
       /\ thisTransform' = r.transform
       /\ errors' = errors \o r.errors
  /\ pc' = At("body", 1)
  /\ UNCHANGED <<validatorVars, declarationNode, exporterVars, dbtVars>>

\* The body entry the loop of interpretBody is at.
AtElement(type) ==
  /\ pc.at = "body"
  /\ pc.i <= Len(declarationNode.body)
  /\ declarationNode.body[pc.i].type = type

\* interpretBody: element instanceof TransformColumnNode
InterpretColumn ==
  /\ AtElement("column")
  /\ LET r == interpretColumn(thisTransform, declarationNode.body[pc.i]) IN
       /\ thisTransform' = r.transform
       /\ errors' = errors \o r.errors
  /\ pc' = At("body", pc.i + 1)
  /\ UNCHANGED <<validatorVars, declarationNode, exporterVars, dbtVars>>

\* interpretBody: element instanceof TransformStatementNode
InterpretStatement ==
  /\ AtElement("statement")
  /\ LET r == interpretStatement(thisTransform, declarationNode.body[pc.i]) IN
       /\ thisTransform' = r.transform
       /\ errors' = errors \o r.errors
  /\ pc' = At("body", pc.i + 1)
  /\ UNCHANGED <<validatorVars, declarationNode, exporterVars, dbtVars>>

\* interpretBody: an element that is neither is passed over.
InterpretOtherElement ==
  /\ AtElement("element")
  /\ pc' = At("body", pc.i + 1)
  /\ UNCHANGED <<validatorVars, declarationNode, thisTransform, errors, exporterVars, dbtVars>>

\* Variant: the loop of interpretBody ends at the first diagnostic.
InterpretReturn_OnFirstError ==
  /\ pc.at = "body"
  /\ pc.i > Len(declarationNode.body) \/ errors # <<>>
  /\ pc' = At("done", 0)
  /\ UNCHANGED <<validatorVars, declarationNode, thisTransform, errors, exporterVars, dbtVars>>

\* interpret() returns the diagnostics of the three steps.
InterpretReturn ==
  /\ pc.at = "body"
  /\ pc.i > Len(declarationNode.body)
  /\ pc' = At("done", 0)
  /\ UNCHANGED <<validatorVars, declarationNode, thisTransform, errors, exporterVars, dbtVars>>

\* TransformExporter.exportTransform(transform, 'postgres') on the Transform
\* that interpret() has filled.
ExportInterpreted ==
  /\ pc.at = "done"
  /\ call' = [fn |-> "exportTransform", transform |-> thisTransform, dialect |-> "postgres"]
  /\ columnExpressions' = buildColumnExpressions(thisTransform, "postgres")
  /\ parts' = IF buildFromClause(thisTransform, "postgres").threw THEN <<>>
              ELSE exportTransformParts(thisTransform, "postgres")
  /\ ret' = exportTransform(thisTransform, "postgres")
  /\ pc' = At("exported", 0)
  /\ UNCHANGED <<validatorVars, declarationNode, thisTransform, errors, dbtVars>>

InterpNext ==
  \/ InterpretName
  \/ InterpretSources
  \/ InterpretColumn
  \/ InterpretStatement
  \/ InterpretOtherElement
  \/ InterpretReturn
  \/ ExportInterpreted

InterpSpec == InterpInit /\ [][InterpNext]_vars

\* interpret() has returned.
InterpretDone == pc.at \in {"done", "exported"}

\* The interpreted Transform has been exported and the export returned.
InterpretedExportReturned == pc.at = "exported" /\ Has(ret, "threw") /\ ~ret.threw

(***************************************************************************)
(* Properties of TransformInterpreter                                      *)
(***************************************************************************)
\* The body entry that the next step of interpretBody interprets.
Entry == declarationNode.body[pc.i]

\* The next step interprets a statement of keyword kw that has an expression.
StatementStep(kw) ==
  /\ AtElement("statement")
  /\ keywordOf(Entry) = kw
  /\ Has(Entry, "expression")

\* A token made of decimal digits only.
IsIntegerToken(str) ==
  Len(str) > 0 /\ \A i \in 1..Len(str) : IndexOf(Digits, SubSeq(str, i, i)) # 0

\* The expression is a single token that is a base-10 integer.
IsIntegerExpression(e) ==
  e.kind = "name" /\ Len(e.fragments) = 1 /\ IsIntegerToken(e.fragments[1])

\* The expression is a name without any digit, or is not a single token.
IsNonNumericExpression(e) ==
  \/ e.kind # "name"
  \/ Len(e.fragments) # 1
  \/ \A i \in 1..Len(e.fragments[1]) : IndexOf(Digits, SubSeq(e.fragments[1], i, i)) = 0

\* The step adds exactly one diagnostic, of that code.
OneMoreError(code) ==
  /\ Len(errors') = Len(errors) + 1
  /\ SubSeq(errors', 1, Len(errors)) = errors
  /\ errors'[Len(errors')].code = code

\* The property f of the Transform is as it was: unset, or the same value.
SameField(f) ==
  /\ Has(thisTransform', f) <=> Has(thisTransform, f)
  /\ Has(thisTransform, f) => thisTransform'[f] = thisTransform[f]

\* C11: interpreting `limit: e` sets transform.limit to n without a
\* diagnostic when e is the base-10 integer token n; when e is a
\* non-numeric name or cannot be decomposed to a single token it adds
\* exactly one INVALID_NAME diagnostic and transform.limit keeps its
\* previous value.
C11_Limit ==
  [][StatementStep("limit") =>
       /\ IsIntegerExpression(Entry.expression) =>
            /\ Has(thisTransform', "limit")
            /\ thisTransform'.limit = digitsValue(Entry.expression.fragments[1], 0)
            /\ errors' = errors
       /\ IsNonNumericExpression(Entry.expression) =>
            /\ OneMoreError("INVALID_NAME")
            /\ SameField("limit")]_vars

\* The keywords of the statements the interpreter knows.
KnownKeywords == {"join", "where", "group_by", "order_by", "limit", "using", "add"}

\* The entry is a statement whose keyword is, in any letter case, unknown.
UnknownKeyword(e) ==
  /\ e.type = "statement"
  /\ Has(e, "keyword")
  /\ toLowerCase(e.keyword) \notin KnownKeywords

\* C12: interpreting a statement whose keyword is, compared
\* case-insensitively, none of join, where, group_by, order_by, limit,
\* using, add adds exactly one UNEXPECTED_TOKEN diagnostic that names the
\* keyword and leaves every field of the Transform unchanged.
C12_UnknownKeyword ==
  [][(AtElement("statement") /\ UnknownKeyword(Entry)) =>
       /\ OneMoreError("UNEXPECTED_TOKEN")
       /\ Includes(toLowerCase(errors'[Len(errors')].message), toLowerCase(Entry.keyword))
       /\ thisTransform' = thisTransform]_vars

\* A statement of an unknown keyword has just been interpreted.
C12_Witness ==
  /\ pc.at = "body"
  /\ pc.i > 1
  /\ UnknownKeyword(declarationNode.body[pc.i - 1])
  /\ Len(errors) > 0
  /\ errors[Len(errors)].code = "UNEXPECTED_TOKEN"
  /\ Includes(errors[Len(errors)].message, "Unknown transform keyword")

\* The number of elements of seq that satisfy P.
Count(seq, P(_)) == Cardinality({i \in 1..Len(seq) : P(seq[i])})

\* The index in seq of the k-th element that satisfies P.
KthIndex(seq, P(_), k) ==
  CHOOSE i \in 1..Len(seq) :
    P(seq[i]) /\ Cardinality({j \in 1..i : P(seq[j])}) = k

\* The expression is the name chain `table.column`.
IsQualifiedName(e) == e.kind = "name" /\ Len(e.fragments) = 2

\* Body entries by what the interpreter is to do with them.
IsStatement(e, kw) == e.type = "statement" /\ Has(e, "keyword") /\ toLowerCase(e.keyword) = kw
ValidColumnEntry(e) == e.type = "column" /\ Has(e, "expression")
InvalidColumnEntry(e) == e.type = "column" /\ ~Has(e, "expression")
ValidJoinEntry(e) ==
  /\ IsStatement(e, "join") /\ Has(e, "expression")
  /\ e.expression.kind = "infix"
  /\ Has(e.expression, "leftExpression") /\ IsQualifiedName(e.expression.leftExpression)
  /\ Has(e.expression, "rightExpression") /\ IsQualifiedName(e.expression.rightExpression)
InvalidJoinEntry(e) == IsStatement(e, "join") /\ ~ValidJoinEntry(e)
WhereEntry(e) == IsStatement(e, "where") /\ Has(e, "expression")
NonNumericLimitEntry(e) ==
  /\ IsStatement(e, "limit") /\ Has(e, "expression")
  /\ e.expression.kind = "name" /\ Len(e.expression.fragments) = 1
  /\ IndexOf(Digits, SubSeq(e.expression.fragments[1], 1, 1)) = 0

\* A source-list element that names a source, and one that names none.
ValidSourceElement(a) ==
  \/ Has(a, "name") /\ a.name.kind = "name"
  \/ ~Has(a, "name") /\ Has(a, "value") /\ a.value.kind = "name"
InvalidSourceElement(a) ==
  \/ Has(a, "name") /\ a.name.kind # "name"
  \/ ~Has(a, "name") /\ Has(a, "value") /\ a.value.kind # "name"

\* The diagnostics with that message.
ErrorsSaying(text) == Count(errors, LAMBDA e : Includes(e.message, text))

\* What interpret() leaves when it has returned: the name, every valid
\* source, column, join and filter in order, and one diagnostic for every
\* entry that yields one.
InterpretedAll ==
  LET body == declarationNode.body
      nameFragments == declarationNode.name.fragments
  IN /\ Has(thisTransform, "name")
     /\ thisTransform.name = nameFragments[Len(nameFragments)]
     /\ IF Has(declarationNode, "sourceList")
        THEN /\ Len(thisTransform.sources) = Count(declarationNode.sourceList, ValidSourceElement)
             /\ ErrorsSaying("Invalid source") = Count(declarationNode.sourceList, InvalidSourceElement)
             /\ ErrorsSaying("must specify source") = 0
        ELSE /\ thisTransform.sources = <<>>
             /\ ErrorsSaying("must specify source") = 1
     /\ Len(thisTransform.columns) = Count(body, ValidColumnEntry)
     /\ \A k \in 1..Len(thisTransform.columns) :
          LET e == body[KthIndex(body, ValidColumnEntry, k)].expression IN
          e.kind = "name" /\ Len(e.fragments) \in {1, 2} =>
            thisTransform.columns[k].sourceColumn = e.fragments[Len(e.fragments)]
     /\ Len(thisTransform.joins) = Count(body, ValidJoinEntry)
     /\ Len(thisTransform.filters) = Count(body, WhereEntry)
     /\ ErrorsSaying("Column expression is required") = Count(body, InvalidColumnEntry)
     /\ ErrorsSaying("Invalid join syntax")
          = Count(body, LAMBDA e : InvalidJoinEntry(e) /\ Has(e, "expression"))
     /\ ErrorsSaying("Unknown transform keyword")
          = Count(body, LAMBDA e : e.type = "statement" /\ (~Has(e, "keyword") \/ UnknownKeyword(e)))
     /\ ErrorsSaying("Limit must be a number") >= Count(body, NonNumericLimitEntry)

\* The number of steps interpret() has left at position p of a body of n
\* entries.
Remaining(p, n) ==
  CASE p.at = "name" -> n + 4
    [] p.at = "sources" -> n + 3
    [] p.at = "body" -> n + 2 - p.i
    [] OTHER -> 0

GroupByNames(e) == IF e.kind = "list" THEN e.elements ELSE <<e>>

\* The body is one group_by statement over qualified names only.
GroupByBody ==
  /\ Len(declarationNode.body) = 1
  /\ IsStatement(declarationNode.body[1], "group_by")
  /\ Has(declarationNode.body[1], "expression")
  /\ declarationNode.body[1].expression.kind \in {"name", "list"}
  /\ \A i \in 1..Len(GroupByNames(declarationNode.body[1].expression)) :
       IsQualifiedName(GroupByNames(declarationNode.body[1].expression)[i])

\* C15: end to end, `group_by: T.c` is emitted as GROUP BY "T"."c" and
\* the list `group_by: T.c, T.d` as GROUP BY "T"."c", "T"."d": each
\* qualified name is one term rendered as "table"."column".
C15_GroupByEndToEnd ==
  (InterpretedExportReturned /\ GroupByBody) =>
    \E k \in 1..Len(parts) :
      parts[k] = "GROUP BY "
                 \o Join(Map(GroupByNames(declarationNode.body[1].expression),
                             LAMBDA n : Quoted(n.fragments[1]) \o "." \o Quoted(n.fragments[2])),
                         ", ")

\* The body is one column with an agg or window attribute and a
\* partition_by attribute whose value is a qualified name.
PartitionByBody ==
  /\ Len(declarationNode.body) = 1
  /\ ValidColumnEntry(declarationNode.body[1])
  /\ Has(declarationNode.body[1], "attributeList")
  /\ LET as == declarationNode.body[1].attributeList IN
       /\ settingAt0(as, "agg").some \/ settingAt0(as, "window").some
       /\ settingWithValue(as, "partition_by").some
       /\ IsQualifiedName(settingAt0(as, "partition_by").value.value)

\* The value of the partition_by attribute of that column.
PartitionByName == settingAt0(declarationNode.body[1].attributeList, "partition_by").value.value

\* C16: end to end, the column attribute `partition_by: T.c` of a window
\* or agg column is emitted as PARTITION BY "T.c": the qualified name is
\* one partition token, quoted as a single identifier.
C16_PartitionByEndToEnd ==
  (InterpretedExportReturned /\ PartitionByBody) =>
    Includes(ret.value,
             "PARTITION BY "
             \o Quoted(PartitionByName.fragments[1] \o "." \o PartitionByName.fragments[2]))

\* The body is one where statement over a boolean (infix) expression.
WhereBody ==
  /\ Len(declarationNode.body) = 1
  /\ WhereEntry(declarationNode.body[1])
  /\ declarationNode.body[1].expression.kind = "infix"

\* C17: end to end, a where statement over a boolean expression with
\* comparison operators, connectives and literals is stored as a Filter
\* whose expression is the text of the expression, and is emitted as WHERE
\* followed by exactly that text.
C17_WhereEndToEnd ==
  (InterpretedExportReturned /\ WhereBody) =>
    /\ Len(thisTransform.filters) = 1
    /\ thisTransform.filters[1].expression = declarationNode.body[1].expression.text
    /\ \E k \in 1..Len(parts) :
         parts[k] = "WHERE " \o declarationNode.body[1].expression.text

(***************************************************************************)
(* DbtExporter                                                             *)
(***************************************************************************)
IsUpper(c) == IndexOf(UpperLetters, c) # 0
IsLower(c) == IndexOf(LowerLetters, c) # 0
IsDigit(c) == IndexOf(Digits, c) # 0

\* _.snakeCase from position i on: out is the result so far and prev the
\* previous character of the current word ("" when a new word starts).  A
\* word ends at a character that is no letter or digit, between a lower-case
\* and an upper-case letter, between a letter and a digit, and before the
\* last upper-case letter of a run that a lower-case letter follows.
RECURSIVE snakeFrom(_, _, _, _)
snakeFrom(str, i, out, prev) ==
  IF i > Len(str) THEN out
  ELSE LET c == SubSeq(str, i, i)
           boundary ==
             \/ prev = ""
             \/ IsLower(prev) /\ IsUpper(c)
             \/ IsDigit(prev) # IsDigit(c)
             \/ IsUpper(prev) /\ IsUpper(c) /\ i < Len(str) /\ IsLower(SubSeq(str, i + 1, i + 1))
       IN IF ~(IsUpper(c) \/ IsLower(c) \/ IsDigit(c))
          THEN snakeFrom(str, i + 1, out, "")
          ELSE snakeFrom(str, i + 1,
                         out \o (IF boundary /\ out # "" THEN "_" ELSE "") \o LowerChar(c),
                         c)

\* _.snakeCase
snakeCase(str) == snakeFrom(str, 1, "", "")

\* path.join(dir, name) for a relative or absolute dir and a plain name.
pathJoin(dir, name) ==
  IF dir = "" \/ dir = "." THEN name
  ELSE IF EndsWith(dir, "/") THEN dir \o name
  ELSE dir \o "/" \o name

\* `table.column` or `column`, unquoted.
Dbt_columnRef(col) ==
  IF TruthyField(col, "sourceTable")
  THEN col.sourceTable \o "." \o col.sourceColumn
  ELSE col.sourceColumn

\* ` AS alias` when the alias is set.
Dbt_aliasSuffix(obj) == IF TruthyField(obj, "alias") THEN " AS " \o obj.alias ELSE ""

\* `table.column DIRECTION` of one order term.
Dbt_orderTerm(o) == o.table \o "." \o o.column \o " " \o o.direction

Dbt_buildAggregationColumn(col) ==
  LET func == toUpperCase(col.aggregation.function)
      expr == Dbt_columnRef(col)
      overClause ==
        "PARTITION BY " \o Join(col.aggregation.partitionBy, ", ")
        \o (IF ~EmptyOrMissing(col.aggregation, "orderBy")
            THEN " ORDER BY " \o Join(Map(col.aggregation.orderBy, Dbt_orderTerm), ", ")
            ELSE "")
      aggregateExpr ==
        IF ~EmptyOrMissing(col.aggregation, "partitionBy")
        THEN func \o "(" \o expr \o ") OVER (" \o overClause \o ")"
        ELSE func \o "(" \o expr \o ")"
  IN "  " \o aggregateExpr \o Dbt_aliasSuffix(col)

\* The argument list of a window function.
Dbt_windowArgs(col, func) ==
  IF func \in {"LAG", "LEAD", "NTH_VALUE", "FIRST_VALUE", "LAST_VALUE"}
  THEN Dbt_columnRef(col)
  ELSE IF func \in {"ROW_NUMBER", "RANK", "DENSE_RANK", "PERCENT_RANK", "CUME_DIST"} THEN ""
  ELSE Dbt_columnRef(col)

Dbt_buildWindowColumn(col) ==
  LET func == toUpperCase(col.window.function)
      args == Dbt_windowArgs(col, func)
      over1 ==
        IF ~EmptyOrMissing(col.window, "partitionBy")
        THEN "PARTITION BY " \o Join(col.window.partitionBy, ", ")
        ELSE ""
      over2 ==
        IF ~EmptyOrMissing(col.window, "orderBy")
        THEN over1 \o (IF over1 # "" THEN " " ELSE "")
             \o "ORDER BY " \o Join(Map(col.window.orderBy, Dbt_orderTerm), ", ")
        ELSE over1
      overClause ==
        IF TruthyField(col.window, "frame")
        THEN over2 \o (IF over2 # "" THEN " " ELSE "") \o col.window.frame
        ELSE over2
      windowExpr == IF args # "" THEN func \o "(" \o args \o ")" ELSE func \o "()"
      fullExpr ==
        IF overClause # "" THEN windowExpr \o " OVER (" \o overClause \o ")"
        ELSE windowExpr \o " OVER ()"
  IN "  " \o fullExpr \o Dbt_aliasSuffix(col)

\* The callback of transform.columns.map: one column, by variant.
Dbt_buildColumn(col) ==
  IF Has(col, "aggregation") THEN Dbt_buildAggregationColumn(col)
  ELSE IF Has(col, "window") THEN Dbt_buildWindowColumn(col)
  ELSE IF TruthyField(col, "expression") /\ ~TruthyField(col, "sourceColumn")
       THEN "  " \o col.expression \o Dbt_aliasSuffix(col)
  ELSE "  " \o Dbt_columnRef(col) \o Dbt_aliasSuffix(col)

Dbt_buildSelectClause(transform) ==
  IF EmptyOrMissing(transform, "columns") THEN "  *"
  ELSE Join(Map(transform.columns, Dbt_buildColumn), ",\n")

\* `{{ ref('name') }} AS alias` of a source.
Dbt_refTarget(source) ==
  "{{ ref('" \o snakeCase(source.name) \o "') }} AS "
  \o (IF TruthyField(source, "alias") THEN source.alias ELSE source.name)

Dbt_buildFromClause(transform) ==
  IF EmptyOrMissing(transform, "sources")
  THEN [threw |-> TRUE, error |-> "Transform " \o transform.name \o " has no sources"]
  ELSE [threw |-> FALSE, value |-> Dbt_refTarget(transform.sources[1])]

\* The Joins that name the source on either side.
Dbt_joinConditions(transform, source) ==
  SelectSeq(joinsOf(transform),
            LAMBDA j : j.rightTable = source.name \/ j.leftTable = source.name)

\* `lt.lc op rt.rc` of one Join.
Dbt_onClause(j) ==
  j.leftTable \o "." \o j.leftColumn \o " " \o j.operator \o " "
  \o j.rightTable \o "." \o j.rightColumn

\* The forEach callback of buildJoinClauses: the line of one source.
Dbt_buildJoinLine(transform, source) ==
  IF Len(Dbt_joinConditions(transform, source)) > 0
  THEN "  INNER JOIN " \o Dbt_refTarget(source) \o " ON "
       \o Join(Map(Dbt_joinConditions(transform, source), Dbt_onClause), " AND ")
  ELSE "  CROSS JOIN " \o Dbt_refTarget(source)

Dbt_buildJoinClauses(transform) ==
  IF EmptyOrMissing(transform, "sources") \/ Len(transform.sources) <= 1 THEN <<>>
  ELSE Map(Tail(transform.sources), LAMBDA source : Dbt_buildJoinLine(transform, source))

Dbt_buildWhereClause(transform) ==
  IF EmptyOrMissing(transform, "filters") THEN null
  ELSE "WHERE " \o Join(Map(transform.filters, LAMBDA f : f.expression), " AND ")

Dbt_buildGroupByClause(transform) ==
  IF EmptyOrMissing(transform, "groupBy") THEN null
  ELSE "GROUP BY " \o Join(transform.groupBy, ", ")

Dbt_buildOrderByClause(transform) ==
  IF EmptyOrMissing(transform, "orderBy") THEN null
  ELSE "ORDER BY " \o Join(Map(transform.orderBy, Dbt_orderTerm), ", ")

Dbt_buildLimitClause(transform) ==
  IF ~Has(transform, "limit") \/ transform.limit = 0 THEN null
  ELSE "LIMIT " \o ToString(transform.limit)

\* The local parts of generateDbtModel, after filter(Boolean).
generateDbtModelParts(transform) ==
  FilterBoolean(
    << "{{", "  config(", "    materialized='view'", "  )", "}}", "",
       "-- Transform: " \o transform.name,
       "-- Generated from DBML",
       "",
       "SELECT",
       Dbt_buildSelectClause(transform),
       "FROM " \o Dbt_buildFromClause(transform).value >>
    \o Dbt_buildJoinClauses(transform)
    \o << Dbt_buildWhereClause(transform),
          Dbt_buildGroupByClause(transform),
          Dbt_buildOrderByClause(transform),
          Dbt_buildLimitClause(transform) >>)

generateDbtModel(transform) ==
  IF Dbt_buildFromClause(transform).threw
  THEN Dbt_buildFromClause(transform)
  ELSE [threw |-> FALSE, value |-> Join(generateDbtModelParts(transform), "\n") \o "\n"]

\* c.alias || c.sourceColumn || 'unknown'
schemaColumnName(c) ==
  IF TruthyField(c, "alias") THEN c.alias
  ELSE IF TruthyField(c, "sourceColumn") THEN c.sourceColumn
  ELSE "unknown"

\* The description of a column in schema.yml.
schemaColumnDescription(c) ==
  IF Has(c, "aggregation")
  THEN "Aggregated column: " \o c.aggregation.function \o "(" \o c.sourceColumn \o ")"
  ELSE IF Has(c, "window")
  THEN "Window function: " \o c.window.function \o "(" \o c.sourceColumn \o ")"
  ELSE "Column from " \o c.sourceTable \o "." \o c.sourceColumn

\* The lines of one model in schema.yml.
schemaModelLines(t) ==
  << "  - name: " \o snakeCase(t.name),
     "    description: Transform: " \o t.name >>
  \o (IF EmptyOrMissing(t, "columns") THEN <<>>
      ELSE <<"    columns:">>
           \o [k \in 1..(2 * Len(t.columns)) |->
                 IF k % 2 = 1
                 THEN "      - name: " \o schemaColumnName(t.columns[(k + 1) \div 2])
                 ELSE "        description: " \o schemaColumnDescription(t.columns[k \div 2])])
  \o <<"">>

RECURSIVE schemaLines(_)
schemaLines(transforms) ==
  IF Len(transforms) = 0 THEN <<>>
  ELSE schemaModelLines(transforms[1]) \o schemaLines(Tail(transforms))

generateSchemaYml(transforms) ==
  Join(<<"version: 2", "", "models:">> \o schemaLines(transforms), "\n")

\* `${_.snakeCase(transform.name)}.sql`
modelFileName(t) == snakeCase(t.name) \o ".sql"

(***************************************************************************)
(* The calls of DbtExporter                                                *)
(***************************************************************************)
MaxDbtBatch == 3

\* The Transforms that batches are made of: with and without sources, and
\* two whose names give the same file name.
DbtBatchTransforms ==
  { [name |-> "UserOrders",
     sources |-> <<[name |-> "Users"], [name |-> "OrderItems", alias |-> "oi"]>>,
     columns |-> <<[sourceTable |-> "Users", sourceColumn |-> "id", alias |-> "uid"],
                   [sourceTable |-> "oi", sourceColumn |-> "qty",
                    aggregation |-> [function |-> "sum"]]>>,
     joins |-> <<Jn("Users", "id", "=", "OrderItems", "user_id")>>],
    [name |-> "V1", sources |-> <<[name |-> "HTTPLog"]>>],
    [name |-> "v_1", sources |-> <<[name |-> "A"]>>,
     columns |-> <<[sourceTable |-> "", sourceColumn |-> "", expression |-> "q"]>>],
    [name |-> "NoSrc", sources |-> <<>>],
    [name |-> "Bare"] }

OutputDirs == {"out", "out/"}

DbtCalls ==
  Opt({[fn |-> "exportTransforms", outputDir |-> o] : o \in OutputDirs},
      "transforms", SeqsUpTo(DbtBatchTransforms, MaxDbtBatch))
  \cup {[fn |-> "generateDbtModel", transform |-> t] : t \in Transforms \cup DbtBatchTransforms}

\* The models directory exists before the call, or it does not.
DbtInit ==
  /\ dbtCall \in DbtCalls
  /\ dirs \in {{}, {"out/models"}}
  /\ files = <<>>
  /\ dbtPc = At("start", 0)
  /\ dbtParts = <<>>
  /\ dbtRet = Pending
  /\ ExporterIdle
  /\ ret = NoCall
  /\ InterpreterIdle
  /\ ValidatorIdle

\* path.join(outputDir, 'models')
modelsDir == pathJoin(dbtCall.outputDir, "models")

\* Variant: the models directory is created before the list is looked at.
DbtReturnEmpty_AfterMkdir ==
  /\ dbtCall.fn = "exportTransforms"
  /\ dbtPc.at = "start"
  /\ EmptyOrMissing(dbtCall, "transforms")
  /\ dirs' = dirs \cup {modelsDir}
  /\ dbtRet' = [threw |-> FALSE, value |-> [modelsGenerated |-> 0, outputDir |-> null]]
  /\ dbtPc' = At("done", 0)
  /\ UNCHANGED <<validatorVars, dbtCall, files, dbtParts, exporterVars, interpreterVars>>

\* exportTransforms: the early return on an empty or missing list.
DbtReturnEmpty ==
  /\ dbtCall.fn = "exportTransforms"
  /\ dbtPc.at = "start"
  /\ EmptyOrMissing(dbtCall, "transforms")
  /\ dbtRet' = [threw |-> FALSE, value |-> [modelsGenerated |-> 0, outputDir |-> null]]
  /\ dbtPc' = At("done", 0)
  /\ UNCHANGED <<validatorVars, dbtCall, dirs, files, dbtParts, exporterVars, interpreterVars>>

\* exportTransforms: the models directory is created if it does not exist.
DbtMakeDir ==
  /\ dbtCall.fn = "exportTransforms"
  /\ dbtPc.at = "start"
  /\ ~EmptyOrMissing(dbtCall, "transforms")
  /\ dirs' = dirs \cup {modelsDir}
  /\ dbtPc' = At("models", 1)
  /\ UNCHANGED <<validatorVars, dbtCall, files, dbtParts, dbtRet, exporterVars, interpreterVars>>

\* Variant: the callback normalises the name of the Transform in place.
DbtWriteModel_RenameInput ==
  /\ dbtPc.at = "models"
  /\ dbtPc.i <= Len(dbtCall.transforms)
  /\ ~generateDbtModel(dbtCall.transforms[dbtPc.i]).threw
  /\ dbtParts' = generateDbtModelParts(dbtCall.transforms[dbtPc.i])
  /\ files' = Put(files, pathJoin(modelsDir, modelFileName(dbtCall.transforms[dbtPc.i])),
                  generateDbtModel(dbtCall.transforms[dbtPc.i]).value)
  /\ dbtCall' = [dbtCall EXCEPT !.transforms[dbtPc.i].name = snakeCase(@)]
  /\ dbtPc' = At("models", dbtPc.i + 1)
  /\ UNCHANGED <<validatorVars, dirs, dbtRet, exporterVars, interpreterVars>>

\* exportTransforms: the forEach callback writes the model of one Transform.
DbtWriteModel ==
  /\ dbtPc.at = "models"
  /\ dbtPc.i <= Len(dbtCall.transforms)
  /\ ~generateDbtModel(dbtCall.transforms[dbtPc.i]).threw
  /\ dbtParts' = generateDbtModelParts(dbtCall.transforms[dbtPc.i])
  /\ files' = Put(files, pathJoin(modelsDir, modelFileName(dbtCall.transforms[dbtPc.i])),
                  generateDbtModel(dbtCall.transforms[dbtPc.i]).value)
  /\ dbtPc' = At("models", dbtPc.i + 1)
  /\ UNCHANGED <<validatorVars, dbtCall, dirs, dbtRet, exporterVars, interpreterVars>>

\* Variant: the files written so far are removed when a model throws.
DbtModelThrows_Cleanup ==
  /\ dbtPc.at = "models"
  /\ dbtPc.i <= Len(dbtCall.transforms)
  /\ generateDbtModel(dbtCall.transforms[dbtPc.i]).threw
  /\ dbtRet' = generateDbtModel(dbtCall.transforms[dbtPc.i])
  /\ files' = <<>>
  /\ dbtPc' = At("done", 0)
  /\ UNCHANGED <<validatorVars, dbtCall, dirs, dbtParts, exporterVars, interpreterVars>>

\* exportTransforms: generateDbtModel throws and the error leaves the call.
DbtModelThrows ==
  /\ dbtPc.at = "models"
  /\ dbtPc.i <= Len(dbtCall.transforms)
  /\ generateDbtModel(dbtCall.transforms[dbtPc.i]).threw
  /\ dbtRet' = generateDbtModel(dbtCall.transforms[dbtPc.i])
  /\ dbtPc' = At("done", 0)
  /\ UNCHANGED <<validatorVars, dbtCall, dirs, files, dbtParts, exporterVars, interpreterVars>>

\* exportTransforms: schema.yml is written and the summary returned.
DbtWriteSchema ==
  /\ dbtPc.at = "models"
  /\ dbtPc.i > Len(dbtCall.transforms)
  /\ files' = Put(files, pathJoin(modelsDir, "schema.yml"), generateSchemaYml(dbtCall.transforms))
  /\ dbtRet' = [threw |-> FALSE,
                value |-> [modelsGenerated |-> Len(dbtCall.transforms),
                           outputDir |-> modelsDir,
                           files |-> Map(dbtCall.transforms, modelFileName) \o <<"schema.yml">>]]
  /\ dbtPc' = At("done", 0)
  /\ UNCHANGED <<validatorVars, dbtCall, dirs, dbtParts, exporterVars, interpreterVars>>

\* DbtExporter.generateDbtModel(transform)
GenerateDbtModel ==
  /\ dbtCall.fn = "generateDbtModel"
  /\ dbtPc.at = "start"
  /\ dbtParts' = IF generateDbtModel(dbtCall.transform).threw THEN <<>>
                 ELSE generateDbtModelParts(dbtCall.transform)
  /\ dbtRet' = generateDbtModel(dbtCall.transform)
  /\ dbtPc' = At("done", 0)
  /\ UNCHANGED <<validatorVars, dbtCall, dirs, files, exporterVars, interpreterVars>>

\* TransformExporter.exportTransform on the Transform that generateDbtModel
\* is given.
ExportSameTransform ==
  /\ dbtCall.fn = "generateDbtModel"
  /\ dbtPc.at = "done"
  /\ call = NoCall
  /\ call' = [fn |-> "exportTransform", transform |-> dbtCall.transform, dialect |-> "postgres"]
  /\ columnExpressions' = buildColumnExpressions(dbtCall.transform, "postgres")
  /\ parts' = IF buildFromClause(dbtCall.transform, "postgres").threw THEN <<>>
              ELSE exportTransformParts(dbtCall.transform, "postgres")
  /\ ret' = exportTransform(dbtCall.transform, "postgres")
  /\ UNCHANGED <<validatorVars, interpreterVars, dbtVars>>

DbtNext ==
  \/ DbtReturnEmpty
  \/ DbtMakeDir
  \/ DbtWriteModel
  \/ DbtModelThrows
  \/ DbtWriteSchema
  \/ GenerateDbtModel
  \/ ExportSameTransform

DbtSpec == DbtInit /\ [][DbtNext]_vars

\* The call of DbtExporter has returned a value, or has thrown.
DbtReturned == dbtPc.at = "done" /\ Has(dbtRet, "threw") /\ ~dbtRet.threw
DbtThrew == dbtPc.at = "done" /\ Has(dbtRet, "threw") /\ dbtRet.threw

(***************************************************************************)
(* Properties of DbtExporter                                               *)
(***************************************************************************)
\* exportTransforms is called with an empty or missing list.
EmptyBatch == dbtCall.fn = "exportTransforms" /\ EmptyOrMissing(dbtCall, "transforms")

\* C18: exportTransforms called with an empty or missing list of
\* Transforms writes no file, creates no directory, raises no error and
\* returns a summary whose model count is 0.
C18_EmptyBatch ==
  /\ []((EmptyBatch /\ dbtPc.at = "start") => ENABLED DbtNext)
  /\ [][EmptyBatch =>
          /\ files' = files
          /\ dirs' = dirs
          /\ Has(dbtRet', "threw") /\ ~dbtRet'.threw
          /\ dbtRet'.value.modelsGenerated = 0]_vars

\* The call with an empty or missing list has returned.
C18_Witness == EmptyBatch /\ DbtReturned /\ dirs = {} /\ files = <<>>

\* The Transform has zero sources.
SourceLess(t) == ~Has(t, "sources") \/ t.sources = <<>>

\* exportTransforms is called with a list that holds a source-less Transform.
SourceLessBatch ==
  /\ dbtCall.fn = "exportTransforms"
  /\ Has(dbtCall, "transforms")
  /\ \E i \in 1..Len(dbtCall.transforms) : SourceLess(dbtCall.transforms[i])

\* The position of the first source-less Transform of the list.
FirstSourceLess == KthIndex(dbtCall.transforms, SourceLess, 1)

\* The path of the model file of the i-th Transform of the list.
ModelPath(i) ==
  dbtCall.outputDir \o (IF EndsWith(dbtCall.outputDir, "/") THEN "" ELSE "/")
  \o "models/" \o snakeCase(dbtCall.transforms[i].name) \o ".sql"

\* C19: exportTransforms called with a list in which some Transform has
\* zero sources throws the 'has no sources' error and aborts without
\* cleanup: the model files of the Transforms before the first source-less
\* one are written and remain, no model file is written for that Transform
\* or a later one, schema.yml is not written and no summary is returned.
C19_SourceLessBatch ==
  SourceLessBatch =>
    /\ ~DbtReturned
    /\ DOMAIN files \subseteq {ModelPath(i) : i \in 1..(FirstSourceLess - 1)}
    /\ dbtPc.at = "done" =>
         /\ DbtThrew
         /\ Includes(dbtRet.error, "has no sources")
         /\ DOMAIN files = {ModelPath(i) : i \in 1..(FirstSourceLess - 1)}
         /\ \A i \in 1..(FirstSourceLess - 1) :
              (\A k \in (i + 1)..(FirstSourceLess - 1) : ModelPath(k) # ModelPath(i)) =>
                files[ModelPath(i)] = generateDbtModel(dbtCall.transforms[i]).value

\* The batch has thrown after it wrote the model of an earlier Transform.
C19_Witness ==
  /\ SourceLessBatch
  /\ DbtThrew
  /\ FirstSourceLess > 1
  /\ ModelPath(1) \in DOMAIN files

\* The string without its double quotes.
RECURSIVE Unquote(_)
Unquote(str) ==
  IF Len(str) = 0 THEN ""
  ELSE (IF SubSeq(str, 1, 1) = "\"" THEN "" ELSE SubSeq(str, 1, 1))
       \o Unquote(SubSeq(str, 2, Len(str)))

\* Both exporters have built the statement of the same Transform.
BothBuilt ==
  /\ dbtCall.fn = "generateDbtModel"
  /\ DbtReturned
  /\ call # NoCall
  /\ Has(ret, "threw") /\ ~ret.threw

\* The parts of the two statements from SELECT on: without the two comment
\* lines of the SQL view and without the config block and the two comment
\* lines of the dbt model.
SqlBody == SubSeq(parts, 3, Len(parts))
DbtBody == SubSeq(dbtParts, 8, Len(dbtParts))

\* The kind of a join line and its ON predicates ("" when it has none).
JoinKind(line) == SubSeq(line, 1, Len("  INNER JOIN "))
JoinPredicates(line) ==
  IF Includes(line, " ON ")
  THEN SubSeq(line, IndexOf(line, " ON ") + Len(" ON "), Len(line))
  ELSE ""

\* The FROM/JOIN target of the dbt model for a source.
RefTemplate(src) ==
  "{{ ref('" \o snakeCase(src.name) \o "') }} AS "
  \o (IF TruthyField(src, "alias") THEN src.alias ELSE src.name)

\* C20: for a Transform with at least one source, the SELECT statement of
\* the dbt model corresponds part by part to the one of exportTransform:
\* the same parts are present, each dbt part is the SQL part with its
\* identifiers unquoted, except that the FROM line and the JOIN lines name
\* their targets as {{ ref('<snake_case source name>') }} templates, with
\* the same join kind and the same ON predicates.
C20_DbtCorresponds ==
  BothBuilt =>
    /\ Len(DbtBody) = Len(SqlBody)
    /\ \A k \in 1..Len(SqlBody) :
         IF k = 3
         THEN DbtBody[k] = "FROM " \o RefTemplate(dbtCall.transform.sources[1])
         ELSE IF k > 3 /\ k <= 2 + Len(dbtCall.transform.sources)
         THEN /\ JoinKind(DbtBody[k]) = JoinKind(SqlBody[k])
              /\ JoinPredicates(DbtBody[k]) = Unquote(JoinPredicates(SqlBody[k]))
              /\ StartsWith(DbtBody[k],
                            JoinKind(SqlBody[k]) \o RefTemplate(dbtCall.transform.sources[k - 2]))
         ELSE DbtBody[k] = Unquote(SqlBody[k])

(***************************************************************************)
(* TransformValidator                                                      *)
(***************************************************************************)
\* createTableSymbolIndex: the table-style identifier of a name, with the
\* letter case normalized.
createTableSymbolIndex(name) == "Table:" \o toLowerCase(name)

validateContext(decl) ==
  IF decl.parent # "program"
  THEN <<CompileError("INVALID_TABLE_CONTEXT", "A Transform can only appear at the global scope")>>
  ELSE <<>>

\* The identifier validateName looks up and registers: failure when the
\* declaration has no name or the name is no name chain.
transformId(decl) ==
  IF Has(decl, "name") /\ destructureComplexVariable(decl.name).some
  THEN Some(createTableSymbolIndex(Join(destructureComplexVariable(decl.name).value, ".")))
  ELSE None

\* Variant: a name that is already registered is registered again.
validateName_Overwrite(table, decl, symbol) ==
  IF ~Has(decl, "name")
  THEN [table |-> table,
        errors |-> <<CompileError("INVALID_NAME", "Transform must have a name")>>]
  ELSE IF ~transformId(decl).some THEN [table |-> table, errors |-> <<>>]
  ELSE [table |-> Put(table, transformId(decl).value, symbol), errors |-> <<>>]

\* validateName: the registry and the diagnostics it leaves.
validateName(table, decl, symbol) ==
  IF ~Has(decl, "name")
  THEN [table |-> table,
        errors |-> <<CompileError("INVALID_NAME", "Transform must have a name")>>]
  ELSE IF ~transformId(decl).some THEN [table |-> table, errors |-> <<>>]
  ELSE IF transformId(decl).value \in DOMAIN table
  THEN [table |-> table,
        errors |-> <<CompileError("DUPLICATE_NAME",
                                  "Transform \"" \o Join(decl.name.fragments, ".")
                                  \o "\" has already been defined")>>]
  ELSE [table |-> Put(table, transformId(decl).value, symbol), errors |-> <<>>]

validateBody(decl) ==
  IF ~Has(decl, "body")
  THEN <<CompileError("UNEXPECTED_TOKEN", "Transform must have a body")>>
  ELSE IF decl.body # "block"
  THEN <<CompileError("UNEXPECTED_TOKEN", "Transform body must be a block")>>
  ELSE <<>>

MaxProgram == 3

\* The declarations that programs are made of: the body is a block, a
\* function application or missing; the parent the program or an element.
ValidatedDeclarations ==
  { [parent |-> "program", name |-> NameNode(<<"V">>), body |-> "block"],
    [parent |-> "program", name |-> NameNode(<<"v">>), body |-> "block"],
    [parent |-> "program", name |-> NameNode(<<"s", "V">>), body |-> "block"],
    [parent |-> "program", name |-> OtherNode("'V'"), body |-> "block"],
    [parent |-> "element", name |-> NameNode(<<"Users">>), body |-> "function"],
    [parent |-> "program"] }

\* The registry before the transforms are validated: empty, or holding a
\* table.
ValidatorInit ==
  /\ programNode \in SeqsUpTo(ValidatedDeclarations, MaxProgram)
  /\ publicSymbolTable \in {<<>>, Put(<<>>, createTableSymbolIndex("users"), [kind |-> "table"])}
  /\ compileErrors = <<>>
  /\ validated = 0
  /\ ExporterIdle
  /\ ret = NoCall
  /\ InterpreterIdle
  /\ DbtIdle

\* new TransformValidator(declarationNode, ...).validate() on the next
\* declaration of the program; its symbol is the declaration's position.
Validate ==
  /\ validated < Len(programNode)
  /\ LET decl == programNode[validated + 1]
         r == validateName(publicSymbolTable, decl,
                           [kind |-> "transform", declaration |-> validated + 1])
     IN /\ publicSymbolTable' = r.table
        /\ compileErrors' = compileErrors \o validateContext(decl) \o r.errors
                            \o validateBody(decl)
  /\ validated' = validated + 1
  /\ UNCHANGED <<programNode, exporterVars, interpreterVars, dbtVars>>

ValidatorNext == Validate

ValidatorSpec == ValidatorInit /\ [][ValidatorNext]_vars

(***************************************************************************)
(* Properties of TransformValidator                                        *)
(***************************************************************************)
\* The diagnostics the step adds.
NewCompileErrors == SubSeq(compileErrors', Len(compileErrors) + 1, Len(compileErrors'))

\* The identifier the name of the i-th declaration maps to, "" when its
\* name maps to none.
IdOf(i) ==
  IF Has(programNode[i], "name") /\ programNode[i].name.kind = "name"
  THEN "Table:" \o toLowerCase(Join(programNode[i].name.fragments, "."))
  ELSE ""

\* C21: validating the declarations against one shared registry, the first
\* declaration whose name maps to an identifier is registered under it with
\* no name diagnostic; a later declaration whose name maps to an identifier
\* already in the registry (of a Transform or of a table) yields exactly one
\* DUPLICATE_NAME diagnostic and leaves the registry unchanged, so an
\* identifier stays mapped to the declaration that registered it first.
C21_NameRegistry ==
  /\ [][(validated < Len(programNode) /\ IdOf(validated + 1) # "") =>
          IF IdOf(validated + 1) \in DOMAIN publicSymbolTable
          THEN /\ publicSymbolTable' = publicSymbolTable
               /\ Count(NewCompileErrors, LAMBDA e : e.code = "DUPLICATE_NAME") = 1
               /\ Count(NewCompileErrors, LAMBDA e : e.code = "INVALID_NAME") = 0
          ELSE /\ DOMAIN publicSymbolTable' = DOMAIN publicSymbolTable \cup {IdOf(validated + 1)}
               /\ publicSymbolTable'[IdOf(validated + 1)]
                    = [kind |-> "transform", declaration |-> validated + 1]
               /\ \A id \in DOMAIN publicSymbolTable :
                    publicSymbolTable'[id] = publicSymbolTable[id]
               /\ Count(NewCompileErrors,
                        LAMBDA e : e.code \in {"DUPLICATE_NAME", "INVALID_NAME"}) = 0]_vars
  /\ [](\A id \in DOMAIN publicSymbolTable :
          publicSymbolTable[id].kind = "transform" =>
            /\ IdOf(publicSymbolTable[id].declaration) = id
            /\ \A i \in 1..(publicSymbolTable[id].declaration - 1) : IdOf(i) # id)

\* A declaration was registered and a later one of the same identifier was
\* reported as a duplicate.
C21_Witness ==
  /\ validated = 2
  /\ IdOf(1) # ""
  /\ IdOf(2) = IdOf(1)
  /\ IdOf(1) \in DOMAIN publicSymbolTable
  /\ publicSymbolTable[IdOf(1)] = [kind |-> "transform", declaration |-> 1]
  /\ \E k \in 1..Len(compileErrors) : compileErrors[k].code = "DUPLICATE_NAME"

(***************************************************************************)
(* Further properties of TransformExporter                                 *)
(***************************************************************************)
\* Every double quote of the text is one of a doubled pair.
RECURSIVE QuotesDoubled(_)
QuotesDoubled(str) ==
  IF Len(str) = 0 THEN TRUE
  ELSE IF SubSeq(str, 1, 1) # "\"" THEN QuotesDoubled(SubSeq(str, 2, Len(str)))
  ELSE Len(str) >= 2 /\ SubSeq(str, 2, 2) = "\"" /\ QuotesDoubled(SubSeq(str, 3, Len(str)))

\* The text is exactly one quoted identifier: no double quote inside it
\* ends it.
IsOneQuotedIdentifier(str) ==
  /\ Len(str) >= 2
  /\ SubSeq(str, 1, 1) = "\""
  /\ SubSeq(str, Len(str), Len(str)) = "\""
  /\ QuotesDoubled(SubSeq(str, 2, Len(str) - 1))

\* The text of line between the prefix and the suffix.
Between(line, prefix, suffix) == SubSeq(line, Len(prefix) + 1, Len(line) - Len(suffix))

\* C22: the text emitted in an identifier position (here the view name,
\* and the name of a first source that has no schema and no alias) is
\* exactly one quoted identifier: a double quote inside the value cannot
\* end it.
C22_InjectionSafe ==
  ExportReturned =>
    /\ IsOneQuotedIdentifier(Between(parts[2], "CREATE OR REPLACE VIEW ", " AS"))
    /\ (DOMAIN call.transform.sources[1] = {"name"}) =>
         IsOneQuotedIdentifier(Between(parts[5], "FROM ", ""))

\* The variant of a column, in the order the payloads are looked at.
VariantOf(col) ==
  IF Has(col, "aggregation") THEN "aggregation"
  ELSE IF Has(col, "window") THEN "window"
  ELSE IF TruthyField(col, "expression") /\ ~TruthyField(col, "sourceColumn") THEN "expression"
  ELSE "plain"

\* The alias text that ends a rendered column.
AliasTail(col) == IF TruthyField(col, "alias") THEN " AS " \o Quoted(col.alias) ELSE ""

\* C24: a column renders by the first matching variant in the order
\* aggregation, window, non-empty expression with no resolved sourceColumn,
\* plain: with both aggregation and window it is the aggregation call and
\* the window function does not appear; with an expression and a resolved
\* sourceColumn it is the plain reference; a plain column with an empty
\* sourceTable is the bare quoted column.
C24_VariantPriority ==
  ColumnsBuilt =>
    \A i \in 1..Len(Columns) :
      LET col == Columns[i]
          e == columnExpressions[i]
      IN /\ VariantOf(col) = "aggregation" =>
              /\ StartsWith(e, "  " \o UpperName(col.aggregation.function) \o "(")
              /\ Has(col, "window") => ~Includes(e, UpperName(col.window.function))
         /\ VariantOf(col) = "window" =>
              /\ StartsWith(e, "  " \o UpperName(col.window.function) \o "(")
              /\ Includes(e, ") OVER (")
              /\ TruthyField(col, "expression") => ~Includes(e, col.expression)
         /\ VariantOf(col) = "expression" => e = "  " \o col.expression \o AliasTail(col)
         /\ VariantOf(col) = "plain" =>
              /\ col.sourceTable # "" =>
                   e = "  " \o Quoted(col.sourceTable) \o "." \o Quoted(col.sourceColumn)
                       \o AliasTail(col)
              /\ col.sourceTable = "" => e = "  " \o Quoted(col.sourceColumn) \o AliasTail(col)
              /\ TruthyField(col, "expression") => ~Includes(e, col.expression)

\* A column with an aggregation, a window and an expression was rendered as
\* the aggregation.
C24_Witness ==
  /\ ColumnsBuilt
  /\ \E i \in 1..Len(Columns) :
       /\ Has(Columns[i], "aggregation") /\ Has(Columns[i], "window")
       /\ TruthyField(Columns[i], "expression")
       /\ columnExpressions[i] = "  AVG(\"B\".\"y\") AS \"m\""

\* C28: a Transform whose limit is set to a non-negative integer n, 0
\* included, is exported with LIMIT n as its last clause.
C28_LimitEmitted ==
  (ExportReturned /\ Has(call.transform, "limit")) =>
    parts[Len(parts)] = "LIMIT " \o ToString(call.transform.limit)

(***************************************************************************)
(* Further properties of TransformInterpreter                              *)
(***************************************************************************)
\* The diagnostics the step adds.
NewErrors == SubSeq(errors', Len(errors) + 1, Len(errors'))

\* The fragments a source-list entry decomposes to; none when it does not.
EntryFragments(a) ==
  IF Has(a, "name") THEN (IF a.name.kind = "name" THEN a.name.fragments ELSE <<>>)
  ELSE IF Has(a, "value") /\ a.value.kind = "name" THEN a.value.fragments
  ELSE <<>>

\* The entry decomposes to at least one fragment.
Decomposes(a) == Len(EntryFragments(a)) > 0

\* The Source of an entry that decomposes.
SourceOf(a) ==
  LET frs == EntryFragments(a) IN
    IF Len(frs) > 1
    THEN [name |-> frs[Len(frs)], schemaName |-> Join(SubSeq(frs, 1, Len(frs) - 1), ".")]
    ELSE [name |-> frs[Len(frs)]]

\* C25: without a source list, interpreting the sources adds exactly one
\* UNEXPECTED_TOKEN diagnostic and no Source, and the body comes next; with
\* a source list every entry is accounted for: the k-th entry that
\* decomposes gives the k-th Source (name the last fragment, schemaName the
\* preceding fragments joined with '.', unset if none), every other entry
\* gives one INVALID_NAME diagnostic, so Sources plus diagnostics number the
\* entries.
C25_SourcesAccounted ==
  [][pc.at = "sources" =>
       /\ errors = SubSeq(errors', 1, Len(errors))
       /\ pc' = At("body", 1)
       /\ IF ~Has(declarationNode, "sourceList")
          THEN /\ Len(NewErrors) = 1
               /\ NewErrors[1].code = "UNEXPECTED_TOKEN"
               /\ thisTransform'.sources = <<>>
          ELSE LET list == declarationNode.sourceList
                   sources == thisTransform'.sources
               IN /\ Len(sources) = Count(list, Decomposes)
                  /\ \A k \in 1..Len(sources) :
                       sources[k] = SourceOf(list[KthIndex(list, Decomposes, k)])
                  /\ \A k \in 1..Len(NewErrors) : NewErrors[k].code = "INVALID_NAME"
                  /\ Len(sources) + Len(NewErrors) = Len(list)]_vars

\* The comparison symbols of a join predicate.
ComparisonSymbols == {"=", "!=", "<>", "<", ">", "<=", ">="}

\* The entry is `join: T.c op T.c` with op a comparison symbol (or no
\* operator token, which defaults to =).
ComparisonJoinEntry(e) ==
  /\ ValidJoinEntry(e)
  /\ TruthyField(e.expression, "op") => e.expression.op \in ComparisonSymbols

\* C26: interpreting a join statement appends exactly one Join (operator
\* defaulting to =) with no diagnostic if and only if its expression is a
\* binary comparison whose sides are each table.column; in every other case
\* it adds one INVALID_NAME diagnostic and leaves joins unchanged; hence
\* the operator of every Join is a comparison symbol.
C26_Join ==
  /\ [][(AtElement("statement") /\ IsStatement(Entry, "join")) =>
          IF ComparisonJoinEntry(Entry)
          THEN LET infix == Entry.expression IN
                 /\ errors' = errors
                 /\ thisTransform'.joins =
                      Append(thisTransform.joins,
                             [leftTable |-> infix.leftExpression.fragments[1],
                              leftColumn |-> infix.leftExpression.fragments[2],
                              operator |-> IF TruthyField(infix, "op") THEN infix.op ELSE "=",
                              rightTable |-> infix.rightExpression.fragments[1],
                              rightColumn |-> infix.rightExpression.fragments[2]])
          ELSE /\ OneMoreError("INVALID_NAME")
               /\ SameField("joins")]_vars
  /\ [](\A k \in 1..Len(thisTransform.joins) :
          thisTransform.joins[k].operator \in ComparisonSymbols)

\* The token is asc, or desc, in any letter case.
IsAscToken(tok) ==
  /\ Len(tok) = 3
  /\ SubSeq(tok, 1, 1) \in {"a", "A"} /\ SubSeq(tok, 2, 2) \in {"s", "S"}
  /\ SubSeq(tok, 3, 3) \in {"c", "C"}
IsDescToken(tok) ==
  /\ Len(tok) = 4
  /\ SubSeq(tok, 1, 1) \in {"d", "D"} /\ SubSeq(tok, 2, 2) \in {"e", "E"}
  /\ SubSeq(tok, 3, 3) \in {"s", "S"} /\ SubSeq(tok, 4, 4) \in {"c", "C"}

\* The OrderTerms an order-by expression stands for.
OrderTermsOf(expression) ==
  LET frs == IF expression.kind = "name" THEN expression.fragments ELSE <<>>
      last == IF Len(frs) > 0 THEN frs[Len(frs)] ELSE ""
      rest == IF IsAscToken(last) \/ IsDescToken(last) THEN SubSeq(frs, 1, Len(frs) - 1) ELSE frs
  IN IF Len(rest) = 2
     THEN <<[table |-> rest[1], column |-> rest[2],
             direction |-> IF IsDescToken(last) THEN "DESC" ELSE "ASC"]>>
     ELSE <<>>

\* transform.orderBy, empty while unset.
OrderByOf(t) == IF Has(t, "orderBy") THEN t.orderBy ELSE <<>>

C23_InputUnchanged ==
  [][/\ dbtCall' = dbtCall
     /\ call # NoCall => call' = call
     /\ (call = NoCall /\ call' # NoCall) => call'.transform = dbtCall.transform]_vars

\* exportTransforms has written the models of two Transforms and schema.yml,
\* and the first Transform still has the name it was passed with.
C23_Witness ==
  /\ dbtCall.fn = "exportTransforms"
  /\ DbtReturned
  /\ Has(dbtCall, "transforms")
  /\ Len(dbtCall.transforms) >= 2
  /\ dbtCall.transforms[1].name = "UserOrders"
  /\ pathJoin(modelsDir, "user_orders.sql") \in DOMAIN files
  /\ pathJoin(modelsDir, "schema.yml") \in DOMAIN files

\* The Transform without its derived columns and its nested transform.
StripPlaceholders(t) == [f \in DOMAIN t \ {"derivedColumns", "nestedTransform"} |-> t[f]]

\* Every property of the Transform but f is as it was.
OnlyFieldChanged(f) ==
  \A g \in (DOMAIN thisTransform \cup DOMAIN thisTransform') \ {f} : SameField(g)

\* C29: derivedColumns and nestedTransform are inert in emission: the SQL
\* exported for an interpreted Transform, its dbt model and its schema.yml
\* are those of the same Transform without the two properties; an add
\* statement changes no property but derivedColumns and a using statement
\* none but nestedTransform.
C29_PlaceholdersInert ==
  /\ [](pc.at = "exported" =>
          /\ ret = exportTransform(StripPlaceholders(thisTransform), "postgres")
          /\ generateDbtModel(thisTransform) = generateDbtModel(StripPlaceholders(thisTransform))
          /\ generateSchemaYml(<<thisTransform>>)
               = generateSchemaYml(<<StripPlaceholders(thisTransform)>>))
  /\ [][(AtElement("statement") /\ IsStatement(Entry, "add")) =>
          OnlyFieldChanged("derivedColumns")]_vars
  /\ [][(AtElement("statement") /\ IsStatement(Entry, "using")) =>
          OnlyFieldChanged("nestedTransform")]_vars

\* A Transform with a column, a derived column and a nested transform was
\* interpreted and exported.
C29_Witness ==
  /\ pc.at = "exported"
  /\ Returned
  /\ Len(thisTransform.columns) = 1
  /\ Has(thisTransform, "derivedColumns")
  /\ Len(thisTransform.derivedColumns) = 1
  /\ Has(thisTransform, "nestedTransform")
  /\ thisTransform.nestedTransform.transformName = "W"

\* exportTransforms has returned for a list of Transforms whose names are
\* pairwise distinct.
DistinctNamesExported ==
  /\ dbtCall.fn = "exportTransforms"
  /\ DbtReturned
  /\ ~EmptyOrMissing(dbtCall, "transforms")
  /\ \A i, j \in 1..Len(dbtCall.transforms) :
       i # j => dbtCall.transforms[i].name # dbtCall.transforms[j].name

\* The path of schema.yml.
SchemaPath == pathJoin(modelsDir, "schema.yml")

\* C30: after a successful exportTransforms on Transforms with pairwise
\* distinct names the models directory holds one model file per Transform,
\* each with the model of its own Transform and at a path of its own, the
\* returned modelsGenerated is the number of model files written, and
\* schema.yml, written after every model file, has one entry per Transform.
C30_OneFilePerTransform ==
  /\ (dbtCall.fn = "exportTransforms" /\ SchemaPath \in DOMAIN files) => dbtPc.at = "done"
  /\ DistinctNamesExported =>
       LET n == Len(dbtCall.transforms) IN
         /\ \A i \in 1..n :
              /\ ModelPath(i) \in DOMAIN files
              /\ files[ModelPath(i)] = generateDbtModel(dbtCall.transforms[i]).value
         /\ \A i, j \in 1..n : i # j => ModelPath(i) # ModelPath(j)
         /\ dbtRet.value.modelsGenerated = Cardinality(DOMAIN files \ {SchemaPath})
         /\ SchemaPath \in DOMAIN files
         /\ CountOcc(files[SchemaPath], "\n  - name: ") = n


====
